---- MODULE Spec2Model ----
(***************************************************************************)
(* rules_img: the content-addressable blob store of pull_tool              *)
(* (pkg/blobstore/blobstore.go).                                           *)
(*                                                                         *)
(* The blob directory is modelled as a POSIX directory: names map to       *)
(* inodes, an open file keeps its inode alive after the name is removed    *)
(* or replaced.  Every exported method of Store is a sequence of steps,    *)
(* one per system call, so that calls of different goroutines/processes    *)
(* interleave between the system calls exactly as they can on disk.        *)
(***************************************************************************)
EXTENDS Integers, Sequences, FiniteSets, TLC

\* Longest blob content, in bytes.
MaxLen == 2
\* The goroutines/processes calling into the store.
Procs == {1, 2}

\* Byte values of blob contents.
Byte == {1}

RECURSIVE SeqsUpTo(_)
SeqsUpTo(n) ==
    IF n = 0 THEN {<<>>}
    ELSE LET S == SeqsUpTo(n - 1)
         IN S \cup {Append(s, b) : s \in {t \in S : Len(t) = n - 1}, b \in Byte}

\* All blob contents (byte buffers and reader contents) up to MaxLen bytes.
Data == SeqsUpTo(MaxLen)

(***************************************************************************)
(* sha256.  The hash state is a number; Write feeds one byte into it.      *)
(* The hash of a buffer is the state after all of its bytes: a bijective   *)
(* numeration of the byte strings, so distinct contents have distinct      *)
(* hashes (collision resistance) and a prefix never hashes like the whole. *)
(***************************************************************************)
HashNew == 0

HashWrite(h, b) == h * (Cardinality(Byte) + 1) + b

RECURSIVE HashWriteAll(_, _)
HashWriteAll(h, s) ==
    IF s = <<>> THEN h ELSE HashWriteAll(HashWrite(h, Head(s)), Tail(s))

\* sha256.New(); hasher.Write(data); hasher.Sum(nil)
Sha256(s) == HashWriteAll(HashNew, s)

\* The hex names that can occur in the blob directory.
Hex == {Sha256(c) : c \in Data}

\* A digest string: "sha256:" + hex when prefix, the bare hex otherwise.
DigestOf(h) == [prefix |-> TRUE, hex |-> h]

\* The digest strings callers pass in: with and without the "sha256:" prefix.
Digests == [prefix : BOOLEAN, hex : Hex]

NoDigest == [prefix |-> FALSE, hex |-> 0 - 1]

\* strings.TrimPrefix(digest, "sha256:"), joined under blobDir/sha256
blobPath(d) == d.hex

\* actualDigest != digest: a comparison of the two strings
\* A comparison that accepts every digest.
NeverMismatch(actual, expected) == FALSE

DigestMismatch(actual, expected) == actual # expected

(***************************************************************************)
(* State.                                                                  *)
(***************************************************************************)
VARIABLES
    dir,        \* blobDir/sha256: hex name -> inode, NoFile when absent
    tempFile,   \* blobDir/sha256/blobstore_tmp*: the temp file of each call
    ino,        \* inode -> content
    pc,         \* where each process is inside its call
    op,         \* the method each process is executing
    digest,     \* the digest argument (WriteSmall: the computed digest)
    data,       \* the data argument, the reader's content, or the bytes read
    checks,     \* what the call's existence checks of its blob file found, in order
    file,       \* the open file of os.WriteFile / of the validatingReader
    off,        \* bytes consumed from the reader / read from the file
    hasher,     \* the running sha256 state
    ret,        \* the value the call returned
    rd,         \* the result of the last validatingReader.Read
    delivered   \* the bytes the validatingReader has handed to its caller

vars == <<dir, tempFile, ino, pc, op, digest, data, checks, file, off, hasher,
          ret, rd, delivered>>

\* The pull repository rule (_pull_impl and the download functions it calls).
VARIABLES
    attr,       \* rctx.attr: the attributes of the pull rule
    registry,   \* what the registries serve
    rpc,        \* where the rule is inside _pull_impl
    loc,        \* the local variables of _pull_impl
    repo,       \* the files of the repository directory
    events,     \* the downloads, subprocesses and messages of the rule, in order
    failed,     \* the message of the fail() that aborted the rule
    earlier     \* what an earlier pull of the same image gave

pullVars == <<attr, registry, rpc, loc, repo, events, failed, earlier>>

\* One download through the mirrors of a source, and the gRPC client helper.
VARIABLES
    fetch,      \* a download of Bazel's downloader: its URLs and its attempts
    client,     \* each goroutine's call of protohelper.Client
    WarnedURIs, \* the set of URIs that have already been warned about
    warnMutex,  \* the goroutine that holds warnMutex, or 0
    stderr      \* the warnings written to os.Stderr, in order

toolVars == <<fetch, client, WarnedURIs, warnMutex, stderr>>

\* The steps of the blob store leave the repository rule's state alone.
NoPull == UNCHANGED pullVars /\ UNCHANGED toolVars

\* The attribute defaults of the pull rule.
NoAttr ==
    [registry |-> "", digest |-> <<>>, tag |-> <<>>,
     unsafe_allow_tag_without_digest |-> FALSE,
     downloader |-> "img_tool", layer_handling |-> "shallow"]

\* No document: None, or a file that is not there.
NoDoc ==
    [id |-> "", mediaType |-> "", manifests |-> <<>>, config |-> <<>>,
     layers |-> <<>>, os |-> "", architecture |-> ""]

NoRegistry == [root |-> NoDoc, bad |-> {}]

\* A download result: struct(digest, path, data, waiter).
NoInfo == [digest |-> <<>>, path |-> <<>>, data |-> NoDoc, waiter |-> "None"]

\* The locals of _pull_impl before its first statement.
NoLoc ==
    [have_valid_digest |-> FALSE, digest |-> <<>>, reference |-> <<>>,
     root_blob_info |-> NoInfo, manifest_info |-> NoInfo, data |-> {},
     media_type |-> "", is_index |-> FALSE, manifests |-> <<>>, i |-> 1,
     layer_digests |-> <<>>, platforms_set |-> {}, files |-> {},
     downloaded_layers |-> <<>>, j |-> 1]

\* A fresh repository directory.
EmptyRepo == [blobs |-> {}, manifest_json |-> NoDoc, temp_manifest |-> NoDoc, BUILD |-> {}]

\* The rule has not been started.
NoSummary ==
    [layer_handling |-> "", cached |-> FALSE, requests |-> <<>>, fetches |-> <<>>,
     data |-> {}, layer_digests |-> <<>>, platforms_set |-> {}]

\* No download has been asked for.
NoFetch ==
    [phase |-> "idle", sources |-> <<>>, up |-> {}, urls |-> <<>>, tried |-> <<>>,
     ok |-> FALSE]

\* No rule is running.
PullIdle ==
    /\ fetch = NoFetch
    /\ client = [p \in Procs |-> [pc |-> "idle", uri |-> <<>>, err |-> "", calls |-> 0,
                                  creds |-> <<>>, metadata |-> <<>>]]
    /\ WarnedURIs = {}
    /\ warnMutex = 0
    /\ stderr = <<>>
    /\ earlier = NoSummary
    /\ attr = NoAttr
    /\ registry = NoRegistry
    /\ rpc = "idle"
    /\ loc = NoLoc
    /\ repo = EmptyRepo
    /\ events = <<>>
    /\ failed = ""

NoFile == 0

\* Every hex name is below RefBase.
RefBase == (Cardinality(Byte) + 1) ^ (MaxLen + 1)
Inode == 1..(Cardinality(Hex) + Cardinality(Procs))

NoRet == [err |-> "none", digest |-> NoDigest, data |-> <<>>, exists |-> FALSE]
NoRead == [n |-> 0, err |-> "none"]

\* A call that returned without error.
RetNil == [NoRet EXCEPT !.err = "nil"]
RetErr(e) == [NoRet EXCEPT !.err = e]

\* Inodes that a name or an open file still refers to.
Live(d, t, f) ==
    {n \in Inode : (\E h \in Hex : d[h] = n) \/ (\E p \in Procs : t[p] = n \/ f[p] = n)}

\* A fresh inode for a file that is being created.
NewInode ==
    CHOOSE n \in Inode \ Live(dir, tempFile, file) :
        \A m \in Inode \ Live(dir, tempFile, file) : n <= m

\* The first place that refers to inode n: the final names in order, then the
\* temp names, then the open files.
FirstRef(d, t, f, n) ==
    LET refs == {h \in Hex : d[h] = n}
                  \cup {RefBase + p : p \in {q \in Procs : t[q] = n}}
                  \cup {RefBase + Cardinality(Procs) + p : p \in {q \in Procs : f[q] = n}}
    IN CHOOSE k \in refs : \A j \in refs : k <= j

\* Inode numbers are invisible to the program: the live inodes are numbered in
\* the order of their first reference, so that equal file systems are equal
\* states.
Numbering(d, t, f) ==
    CHOOSE num \in {[n \in DOMAIN first |->
                       1 + Cardinality({m \in DOMAIN first : first[m] < first[n]})] :
                    first \in {[n \in Live(d, t, f) |-> FirstRef(d, t, f, n)]}} : TRUE

Renumbered(d, t, f, i, num) ==
    [dir |-> [h \in Hex |-> IF d[h] = NoFile THEN NoFile ELSE num[d[h]]],
     tempFile |-> [p \in Procs |-> IF t[p] = NoFile THEN NoFile ELSE num[t[p]]],
     file |-> [p \in Procs |-> IF f[p] = NoFile THEN NoFile ELSE num[f[p]]],
     ino |-> [k \in Inode |->
                IF \E n \in DOMAIN num : num[n] = k
                  THEN i[CHOOSE n \in DOMAIN num : num[n] = k] ELSE <<>>]]

\* The file system after a step.  An inode nothing refers to is freed.
FileSystem(d, t, f, i) ==
    CHOOSE fs \in {Renumbered(d, t, f, i, num) : num \in {Numbering(d, t, f)}} : TRUE

\* A step that changes the file system to names d, temp names t, open files f
\* and contents i.
Disk(d, t, f, i) ==
    \E fs \in {FileSystem(d, t, f, i)} :
    /\ dir' = fs.dir
    /\ tempFile' = fs.tempFile
    /\ file' = fs.file
    /\ ino' = fs.ino
    /\ NoPull

NoDisk == UNCHANGED <<dir, tempFile, file, ino>> /\ NoPull

\* os.Stat(path) succeeds
\* The result of os.Stat read the wrong way round.
ExistsInverted(d) == dir[blobPath(d)] = NoFile

Exists(d) == dir[blobPath(d)] # NoFile

\* What is stored under a hex name.
Stored(h) == ino[dir[h]]

\* Writing buf at offset 0 of a file whose content is cur.
WriteAt0(cur, buf) ==
    IF Len(cur) > Len(buf) THEN buf \o SubSeq(cur, Len(buf) + 1, Len(cur)) ELSE buf

\* The outcomes of a system call: it can fail only where I/O errors are admitted.
Outcomes(io) == IF io THEN {"ok", "err"} ELSE {"ok"}

Init ==
    /\ dir = [h \in Hex |-> NoFile]
    /\ tempFile = [p \in Procs |-> NoFile]
    /\ ino = [n \in Inode |-> <<>>]
    /\ pc = [p \in Procs |-> "idle"]
    /\ op = [p \in Procs |-> "none"]
    /\ digest = [p \in Procs |-> NoDigest]
    /\ data = [p \in Procs |-> <<>>]
    /\ checks = [p \in Procs |-> <<>>]
    /\ file = [p \in Procs |-> NoFile]
    /\ off = [p \in Procs |-> 0]
    /\ hasher = [p \in Procs |-> HashNew]
    /\ ret = [p \in Procs |-> NoRet]
    /\ rd = [p \in Procs |-> NoRead]
    /\ delivered = [p \in Procs |-> <<>>]
    /\ PullIdle

\* A process enters method m with its arguments.
Enter(p, m, dg, buf) ==
    /\ pc[p] = "idle"
    /\ op' = [op EXCEPT ![p] = m]
    /\ digest' = [digest EXCEPT ![p] = dg]
    /\ data' = [data EXCEPT ![p] = buf]
    /\ checks' = [checks EXCEPT ![p] = <<Exists(dg)>>]

\* The call returns r.
Finish(p, r) ==
    /\ pc' = [pc EXCEPT ![p] = "done"]
    /\ ret' = [ret EXCEPT ![p] = r]

\* The caller takes the returned value; the process can call again.
Return(p) ==
    /\ pc[p] = "done"
    /\ pc' = [pc EXCEPT ![p] = "idle"]
    /\ op' = [op EXCEPT ![p] = "none"]
    /\ digest' = [digest EXCEPT ![p] = NoDigest]
    /\ data' = [data EXCEPT ![p] = <<>>]
    /\ checks' = [checks EXCEPT ![p] = <<>>]
    /\ off' = [off EXCEPT ![p] = 0]
    /\ hasher' = [hasher EXCEPT ![p] = HashNew]
    /\ ret' = [ret EXCEPT ![p] = NoRet]
    /\ rd' = [rd EXCEPT ![p] = NoRead]
    /\ delivered' = [delivered EXCEPT ![p] = <<>>]
    /\ NoDisk

(***************************************************************************)
(* Store.Exists                                                            *)
(***************************************************************************)
CallExists(p, dg) ==
    /\ Enter(p, "Exists", dg, <<>>)
    /\ Finish(p, [NoRet EXCEPT !.err = "nil", !.exists = Exists(dg)])
    /\ NoDisk
    /\ UNCHANGED <<off, hasher, rd, delivered>>

(***************************************************************************)
(* Store.WriteSmall and Store.WriteSmallWithDigest                         *)
(***************************************************************************)
WriteSmall(p, buf) ==
    LET dg == DigestOf(Sha256(buf)) IN
    /\ Enter(p, "WriteSmall", dg, buf)
    /\ IF Exists(dg)
         THEN Finish(p, [RetNil EXCEPT !.digest = dg])
         ELSE /\ pc' = [pc EXCEPT ![p] = "wf_open"]
              /\ UNCHANGED ret
    /\ NoDisk
    /\ UNCHANGED <<off, hasher, rd, delivered>>

\* The data validated before the existence check.
WriteSmallWithDigestValidatesFirst(p, dg, buf) ==
    /\ Enter(p, "WriteSmallWithDigest", dg, buf)
    /\ IF DigestMismatch(DigestOf(Sha256(buf)), dg)
         THEN Finish(p, RetErr("digest mismatch"))
         ELSE IF Exists(dg)
                THEN Finish(p, RetNil)
                ELSE /\ pc' = [pc EXCEPT ![p] = "wf_open"]
                     /\ UNCHANGED ret
    /\ NoDisk
    /\ UNCHANGED <<off, hasher, rd, delivered>>

WriteSmallWithDigest(p, dg, buf) ==
    /\ Enter(p, "WriteSmallWithDigest", dg, buf)
    /\ IF Exists(dg)
         THEN Finish(p, RetNil)
         ELSE IF DigestMismatch(DigestOf(Sha256(buf)), dg)
                THEN Finish(p, RetErr("digest mismatch"))
                ELSE /\ pc' = [pc EXCEPT ![p] = "wf_open"]
                     /\ UNCHANGED ret
    /\ NoDisk
    /\ UNCHANGED <<off, hasher, rd, delivered>>

\* os.WriteFile, first half: OpenFile(path, O_WRONLY|O_CREATE|O_TRUNC)
WriteFileOpen(p, io) ==
    /\ pc[p] = "wf_open"
    /\ \E o \in Outcomes(io) :
         IF o = "ok"
           THEN LET h == blobPath(digest[p])
                    n == IF dir[h] = NoFile THEN NewInode ELSE dir[h]
                IN /\ Disk([dir EXCEPT ![h] = n], tempFile, [file EXCEPT ![p] = n],
                           [ino EXCEPT ![n] = <<>>])
                   /\ pc' = [pc EXCEPT ![p] = "wf_write"]
                   /\ UNCHANGED ret
           ELSE /\ Finish(p, RetErr("writing blob"))
                /\ NoDisk
    /\ UNCHANGED <<checks, op, digest, data, off, hasher, rd, delivered>>

\* os.WriteFile, second half: f.Write(data), f.Close().  A failed write leaves
\* the bytes written before the error in the file.
WriteFileWrite(p, io) ==
    /\ pc[p] = "wf_write"
    /\ \E o \in Outcomes(io) :
       \E k \in IF o = "ok" THEN {Len(data[p])} ELSE 0..(Len(data[p]) - 1) :
         /\ Disk(dir, tempFile, [file EXCEPT ![p] = NoFile],
                 [ino EXCEPT ![file[p]] = WriteAt0(@, SubSeq(data[p], 1, k))])
         /\ Finish(p, IF o = "err" THEN RetErr("writing blob")
                      ELSE IF op[p] = "WriteSmall"
                             THEN [RetNil EXCEPT !.digest = digest[p]]
                             ELSE RetNil)
    /\ UNCHANGED <<checks, op, digest, data, off, hasher, rd, delivered>>

(***************************************************************************)
(* Store.WriteLarge                                                        *)
(***************************************************************************)
\* A deferred function that closes the temp file without removing it.
KeepTemp(p) == tempFile

\* The deferred function: tempFile.Close(), os.Remove(tempPath).
RemoveTemp(p) == [tempFile EXCEPT ![p] = NoFile]

\* An early return that leaves the reader unread.
WriteLargeNoDrain(p, dg, r) ==
    /\ Enter(p, "WriteLarge", dg, r)
    /\ IF Exists(dg)
         THEN /\ Finish(p, RetNil)
              /\ UNCHANGED off
         ELSE /\ pc' = [pc EXCEPT ![p] = "wl_create"]
              /\ UNCHANGED <<off, ret>>
    /\ NoDisk
    /\ UNCHANGED <<hasher, rd, delivered>>

\* s.Exists(digest), and when the blob is there io.Copy(io.Discard, r).
WriteLarge(p, dg, r) ==
    /\ Enter(p, "WriteLarge", dg, r)
    /\ IF Exists(dg)
         THEN /\ off' = [off EXCEPT ![p] = Len(r)]
              /\ Finish(p, RetNil)
         ELSE /\ pc' = [pc EXCEPT ![p] = "wl_create"]
              /\ UNCHANGED <<off, ret>>
    /\ NoDisk
    /\ UNCHANGED <<hasher, rd, delivered>>

\* The content written straight to a file created at the final path.
CreateTempInPlace(p, io) ==
    /\ pc[p] = "wl_create"
    /\ \E o \in Outcomes(io) :
         IF o = "ok"
           THEN /\ Disk([dir EXCEPT ![blobPath(digest[p])] = NewInode],
                        [tempFile EXCEPT ![p] = NewInode], file,
                        [ino EXCEPT ![NewInode] = <<>>])
                /\ pc' = [pc EXCEPT ![p] = "wl_copy"]
                /\ UNCHANGED ret
           ELSE /\ Finish(p, RetErr("creating temp file"))
                /\ NoDisk
    /\ hasher' = [hasher EXCEPT ![p] = HashNew]
    /\ UNCHANGED <<checks, op, digest, data, off, rd, delivered>>

\* os.CreateTemp(filepath.Dir(path), "blobstore_tmp"); hasher := sha256.New()
CreateTemp(p, io) ==
    /\ pc[p] = "wl_create"
    /\ \E o \in Outcomes(io) :
         IF o = "ok"
           THEN /\ Disk(dir, [tempFile EXCEPT ![p] = NewInode], file,
                        [ino EXCEPT ![NewInode] = <<>>])
                /\ pc' = [pc EXCEPT ![p] = "wl_copy"]
                /\ UNCHANGED ret
           ELSE /\ Finish(p, RetErr("creating temp file"))
                /\ NoDisk
    /\ hasher' = [hasher EXCEPT ![p] = HashNew]
    /\ UNCHANGED <<checks, op, digest, data, off, rd, delivered>>

\* io.Copy(io.MultiWriter(tempFile, hasher), r): one chunk per step.  The
\* reader or the write to the temp file can fail at any chunk.
CopyChunk(p, io) ==
    /\ pc[p] = "wl_copy"
    /\ \E o \in Outcomes(io) :
         IF o = "err"
           THEN /\ Disk(dir, RemoveTemp(p), file, ino)
                /\ Finish(p, RetErr("writing blob"))
                /\ UNCHANGED <<off, hasher>>
           ELSE IF off[p] < Len(data[p])
                  THEN LET b == data[p][off[p] + 1] IN
                       /\ Disk(dir, tempFile, file,
                               [ino EXCEPT ![tempFile[p]] = Append(@, b)])
                       /\ hasher' = [hasher EXCEPT ![p] = HashWrite(@, b)]
                       /\ off' = [off EXCEPT ![p] = @ + 1]
                       /\ UNCHANGED <<pc, ret>>
                  ELSE /\ pc' = [pc EXCEPT ![p] = "wl_close"]
                       /\ NoDisk
                       /\ UNCHANGED <<off, hasher, ret>>
    /\ UNCHANGED <<checks, op, digest, data, rd, delivered>>

\* tempFile.Close(), then the comparison of the computed digest.
CloseTemp(p, io) ==
    /\ pc[p] = "wl_close"
    /\ \E o \in Outcomes(io) :
         IF o = "err"
           THEN /\ Disk(dir, RemoveTemp(p), file, ino)
                /\ Finish(p, RetErr("closing temp file"))
           ELSE IF DigestMismatch(DigestOf(hasher[p]), digest[p])
                  THEN /\ Disk(dir, RemoveTemp(p), file, ino)
                       /\ Finish(p, RetErr("digest mismatch"))
                  ELSE /\ pc' = [pc EXCEPT ![p] = "wl_rename"]
                       /\ NoDisk
                       /\ UNCHANGED ret
    /\ UNCHANGED <<checks, op, digest, data, off, hasher, rd, delivered>>

\* The outcomes of os.Rename(tempPath, path).  Where rename is not atomic
\* ("Windows doesn't really") it can fail because the destination is there.
RenameOutcomes(p, io) ==
    IF io \/ Exists(digest[p]) THEN {"ok", "err"} ELSE {"ok"}

\* os.Rename(tempPath, path): on success the temp name is gone and the final
\* name refers to the temp file's inode, replacing what was there.
Rename(p, io) ==
    /\ pc[p] = "wl_rename"
    /\ \E o \in RenameOutcomes(p, io) :
         IF o = "ok"
           THEN /\ Disk([dir EXCEPT ![blobPath(digest[p])] = tempFile[p]],
                        RemoveTemp(p), file, ino)
                /\ Finish(p, RetNil)
           ELSE /\ pc' = [pc EXCEPT ![p] = "wl_recheck"]
                /\ NoDisk
                /\ UNCHANGED ret
    /\ UNCHANGED <<checks, op, digest, data, off, hasher, rd, delivered>>

\* A failed rename reported without looking at the destination.
RenameFailedNoRecheck(p) ==
    /\ pc[p] = "wl_recheck"
    /\ checks' = [checks EXCEPT ![p] = Append(@, Exists(digest[p]))]
    /\ Finish(p, RetErr("renaming blob"))
    /\ Disk(dir, RemoveTemp(p), file, ino)
    /\ UNCHANGED <<op, digest, data, off, hasher, rd, delivered>>

\* A failed rename taken for a success.
RenameFailedIgnored(p) ==
    /\ pc[p] = "wl_recheck"
    /\ checks' = [checks EXCEPT ![p] = Append(@, Exists(digest[p]))]
    /\ Finish(p, RetNil)
    /\ Disk(dir, RemoveTemp(p), file, ino)
    /\ UNCHANGED <<op, digest, data, off, hasher, rd, delivered>>

\* After a failed rename: s.Exists(digest) decides between nil and the error.
RenameFailed(p) ==
    /\ pc[p] = "wl_recheck"
    /\ checks' = [checks EXCEPT ![p] = Append(@, Exists(digest[p]))]
    /\ Finish(p, IF Exists(digest[p]) THEN RetNil ELSE RetErr("renaming blob"))
    /\ Disk(dir, RemoveTemp(p), file, ino)
    /\ UNCHANGED <<op, digest, data, off, hasher, rd, delivered>>

(***************************************************************************)
(* Store.ReadSmall                                                         *)
(***************************************************************************)
\* os.ReadFile(path) and the comparison of the recomputed digest.
ReadSmall(p, dg, io) ==
    \E o \in Outcomes(io) :
      LET bytes == IF Exists(dg) /\ o = "ok" THEN Stored(blobPath(dg)) ELSE <<>> IN
      /\ Enter(p, "ReadSmall", dg, bytes)
      /\ IF ~Exists(dg)
           THEN Finish(p, RetErr("not found"))
           ELSE IF o = "err"
                  THEN Finish(p, RetErr("reading blob"))
                  ELSE IF DigestMismatch(DigestOf(Sha256(bytes)), dg)
                         THEN /\ pc' = [pc EXCEPT ![p] = "rs_remove"]
                              /\ UNCHANGED ret
                         ELSE Finish(p, [RetNil EXCEPT !.data = bytes])
      /\ NoDisk
      /\ UNCHANGED <<off, hasher, rd, delivered>>

\* The mismatch reported with the corrupted blob left in place.
RemoveCorruptedKeepsFile(p) ==
    /\ pc[p] = "rs_remove"
    /\ NoDisk
    /\ Finish(p, RetErr("digest mismatch"))
    /\ UNCHANGED <<checks, op, digest, data, off, hasher, rd, delivered>>

\* os.Remove(path) of the corrupted blob, then the mismatch error.
RemoveCorrupted(p) ==
    /\ pc[p] = "rs_remove"
    /\ Disk([dir EXCEPT ![blobPath(digest[p])] = NoFile], tempFile, file, ino)
    /\ Finish(p, RetErr("digest mismatch"))
    /\ UNCHANGED <<checks, op, digest, data, off, hasher, rd, delivered>>

(***************************************************************************)
(* Store.Open and the validatingReader it returns                          *)
(***************************************************************************)
\* os.Open(path); the stream is handed to the caller.
Open(p, dg, io) ==
    /\ Enter(p, "Open", dg, <<>>)
    /\ IF ~Exists(dg)
         THEN /\ Finish(p, RetErr("not found"))
              /\ NoDisk
         ELSE \E o \in Outcomes(io) :
                IF o = "err"
                  THEN /\ Finish(p, RetErr("opening blob"))
                       /\ NoDisk
                  ELSE /\ Disk(dir, tempFile, [file EXCEPT ![p] = dir[blobPath(dg)]], ino)
                       /\ pc' = [pc EXCEPT ![p] = "stream"]
                       /\ ret' = [ret EXCEPT ![p] = RetNil]
    /\ hasher' = [hasher EXCEPT ![p] = HashNew]
    /\ UNCHANGED <<off, rd, delivered>>

\* A reader that compares the digest after every chunk.
ReadValidatesEveryChunk(p, io) ==
    /\ pc[p] = "stream"
    /\ \E o \in Outcomes(io) :
         IF o = "err"
           THEN /\ rd' = [rd EXCEPT ![p] = [n |-> 0, err |-> "read error"]]
                /\ UNCHANGED <<off, hasher, delivered>>
           ELSE IF off[p] < Len(ino[file[p]])
                  THEN LET b == ino[file[p]][off[p] + 1] IN
                       /\ hasher' = [hasher EXCEPT ![p] = HashWrite(@, b)]
                       /\ off' = [off EXCEPT ![p] = @ + 1]
                       /\ delivered' = [delivered EXCEPT ![p] = Append(@, b)]
                       /\ rd' = [rd EXCEPT ![p] =
                                   [n |-> 1,
                                    err |-> IF DigestMismatch(DigestOf(HashWrite(hasher[p], b)), digest[p])
                                              THEN "digest mismatch" ELSE "nil"]]
                  ELSE /\ rd' = [rd EXCEPT ![p] =
                                   [n |-> 0,
                                    err |-> IF DigestMismatch(DigestOf(hasher[p]), digest[p])
                                              THEN "digest mismatch" ELSE "EOF"]]
                       /\ UNCHANGED <<off, hasher, delivered>>
    /\ NoDisk
    /\ UNCHANGED <<pc, op, digest, data, checks, ret>>

\* validatingReader.Read(p): the tee hands on one chunk and hashes it; at the
\* end of the file the digest of what was hashed is compared.
Read(p, io) ==
    /\ pc[p] = "stream"
    /\ \E o \in Outcomes(io) :
         IF o = "err"
           THEN /\ rd' = [rd EXCEPT ![p] = [n |-> 0, err |-> "read error"]]
                /\ UNCHANGED <<off, hasher, delivered>>
           ELSE IF off[p] < Len(ino[file[p]])
                  THEN LET b == ino[file[p]][off[p] + 1] IN
                       /\ hasher' = [hasher EXCEPT ![p] = HashWrite(@, b)]
                       /\ off' = [off EXCEPT ![p] = @ + 1]
                       /\ delivered' = [delivered EXCEPT ![p] = Append(@, b)]
                       /\ rd' = [rd EXCEPT ![p] = [n |-> 1, err |-> "nil"]]
                  ELSE /\ rd' = [rd EXCEPT ![p] =
                                   [n |-> 0,
                                    err |-> IF DigestMismatch(DigestOf(hasher[p]), digest[p])
                                              THEN "digest mismatch" ELSE "EOF"]]
                       /\ UNCHANGED <<off, hasher, delivered>>
    /\ NoDisk
    /\ UNCHANGED <<pc, op, digest, data, checks, ret>>

\* validatingReader.Close(): v.file.Close()
Close(p) ==
    /\ pc[p] = "stream"
    /\ Disk(dir, tempFile, [file EXCEPT ![p] = NoFile], ino)
    /\ pc' = [pc EXCEPT ![p] = "done"]
    /\ UNCHANGED <<checks, op, digest, data, off, hasher, ret, rd, delivered>>

(***************************************************************************)
(* The environment: a stored blob file is altered behind the store's back. *)
(***************************************************************************)
Quiescent == \A p \in Procs : pc[p] = "idle"

Alter(h, c) ==
    /\ Quiescent
    /\ dir[h] # NoFile
    /\ c # Stored(h)
    /\ Disk(dir, tempFile, file, [ino EXCEPT ![dir[h]] = c])
    /\ UNCHANGED <<pc, op, digest, data, checks, off, hasher, ret, rd, delivered>>

(***************************************************************************)
(* Specifications.                                                         *)
(***************************************************************************)
\* A new call by process p on one of the blob names H.
Call(p, io, H) ==
    \/ \E dg \in Digests : blobPath(dg) \in H /\ CallExists(p, dg)
    \/ \E buf \in Data : Sha256(buf) \in H /\ WriteSmall(p, buf)
    \/ \E dg \in Digests, buf \in Data :
          blobPath(dg) \in H /\ WriteSmallWithDigest(p, dg, buf)
    \/ \E dg \in Digests, r \in Data : blobPath(dg) \in H /\ WriteLarge(p, dg, r)
    \/ \E dg \in Digests : blobPath(dg) \in H /\ ReadSmall(p, dg, io)
    \/ \E dg \in Digests : blobPath(dg) \in H /\ Open(p, dg, io)

\* The next system call of a call in progress.
Step(p, io) ==
    \/ WriteFileOpen(p, io)
    \/ WriteFileWrite(p, io)
    \/ CreateTemp(p, io)
    \/ CopyChunk(p, io)
    \/ CloseTemp(p, io)
    \/ Rename(p, io)
    \/ RemoveCorrupted(p)
    \/ Read(p, io)
    \/ Close(p)
    \/ Return(p)

\* The blob names in use: stored, or addressed by a call in progress.
InUse ==
    {h \in Hex : dir[h] # NoFile} \cup {blobPath(digest[q]) : q \in {r \in Procs : pc[r] # "idle"}}

\* Calls on different digests touch disjoint files.  The concurrent
\* specification follows the callers that contend for one blob name.
Contended == IF InUse = {} THEN Hex ELSE InUse

\* Concurrent callers on a file system whose calls can fail.
Next ==
    \/ \E p \in Procs : Call(p, TRUE, Contended) \/ Step(p, TRUE) \/ RenameFailed(p)
    \/ \E h \in Hex, c \in Data : Alter(h, c)

Spec == Init /\ [][Next]_vars

\* One call at a time on a file system that does not fail.
Alone(p) == \A q \in Procs \ {p} : pc[q] = "idle"

SeqNext ==
    \/ \E p \in Procs : Alone(p) /\ (Call(p, FALSE, Hex) \/ Step(p, FALSE))
    \/ \E h \in Hex, c \in Data : Alter(h, c)

SeqSpec == Init /\ [][SeqNext]_vars

\* Concurrent WriteLarge calls, each with the digest of its content, on a
\* file system that does not fail.
RaceNext ==
    \E p \in Procs :
        \/ \E r \in Data : WriteLarge(p, DigestOf(Sha256(r)), r)
        \/ CreateTemp(p, FALSE)
        \/ CopyChunk(p, FALSE)
        \/ CloseTemp(p, FALSE)
        \/ Rename(p, FALSE)
        \/ RenameFailed(p)
        \/ Return(p)

RaceSpec == Init /\ [][RaceNext]_vars

\* WriteLarge calls with any digest string and any content, on a file system
\* whose calls can fail, observed by concurrent Exists, ReadSmall and Open.
LargeCall(p, H) ==
    \/ \E dg \in Digests, r \in Data : blobPath(dg) \in H /\ WriteLarge(p, dg, r)
    \/ \E dg \in Digests : blobPath(dg) \in H /\ CallExists(p, dg)
    \/ \E dg \in Digests : blobPath(dg) \in H /\ ReadSmall(p, dg, TRUE)
    \/ \E dg \in Digests : blobPath(dg) \in H /\ Open(p, dg, TRUE)

LargeNext ==
    \E p \in Procs :
        \/ LargeCall(p, Contended)
        \/ CreateTemp(p, TRUE)
        \/ CopyChunk(p, TRUE)
        \/ CloseTemp(p, TRUE)
        \/ Rename(p, TRUE)
        \/ RenameFailed(p)
        \/ RemoveCorrupted(p)
        \/ Read(p, TRUE)
        \/ Close(p)
        \/ Return(p)

LargeSpec == Init /\ [][LargeNext]_vars

\* Concurrent WriteSmall, Exists, ReadSmall and WriteLarge calls that address
\* the blobs by their "sha256:" digests, on a file system that does not fail.
SmallCall(p, H) ==
    \/ \E buf \in Data : Sha256(buf) \in H /\ WriteSmall(p, buf)
    \/ \E h \in H : CallExists(p, DigestOf(h))
    \/ \E h \in H : ReadSmall(p, DigestOf(h), FALSE)
    \/ \E h \in H, r \in Data : WriteLarge(p, DigestOf(h), r)

SmallNext ==
    \E p \in Procs :
        \/ SmallCall(p, Contended)
        \/ WriteFileOpen(p, FALSE)
        \/ WriteFileWrite(p, FALSE)
        \/ RemoveCorrupted(p)
        \/ CreateTemp(p, FALSE)
        \/ CopyChunk(p, FALSE)
        \/ CloseTemp(p, FALSE)
        \/ Rename(p, FALSE)
        \/ RenameFailed(p)
        \/ Return(p)

SmallSpec == Init /\ [][SmallNext]_vars

(***************************************************************************)
(* The pull repository rule: _pull_impl and the download functions.        *)
(*                                                                         *)
(* Digests, tags and file names are strings, modelled as sequences of      *)
(* characters, so that len(), startswith() and removeprefix() are computed *)
(* on them as the rule computes them.  A JSON document is the record of    *)
(* the fields the rule reads from it; its field id names its sha256.       *)
(***************************************************************************)
\* The string of n characters c.
Rep(c, n) == [k \in 1..n |-> c]

Sha256Prefix == <<"s", "h", "a", "2", "5", "6", ":">>

\* s.startswith(pre)
StartsWith(s, pre) == Len(s) >= Len(pre) /\ SubSeq(s, 1, Len(pre)) = pre

\* s.removeprefix(pre)
RemovePrefix(s, pre) ==
    IF StartsWith(s, pre) THEN SubSeq(s, Len(pre) + 1, Len(s)) ELSE s

\* s.replace(old, new): every occurrence of old, from the left.
RECURSIVE Replace(_, _, _)
Replace(s, old, new) ==
    IF s = <<>> THEN <<>>
    ELSE IF StartsWith(s, old)
      THEN new \o Replace(SubSeq(s, Len(old) + 1, Len(s)), old, new)
      ELSE <<Head(s)>> \o Replace(Tail(s), old, new)

\* "sha256_", which replaces "sha256:" in the names of lazy layers.
Sha256Underscore == <<"s", "h", "a", "2", "5", "6", "_">>

\* The hex encoding of the sha256 named c: 64 characters.
HexString(c) == Rep(c, 64)

\* "sha256:" + hex
DigestString(c) == Sha256Prefix \o HexString(c)

MEDIA_TYPE_INDEX == "application/vnd.oci.image.index.v1+json"
DOCKER_MANIFEST_LIST_V2 == "application/vnd.docker.distribution.manifest.list.v2+json"
MEDIA_TYPE_MANIFEST == "application/vnd.oci.image.manifest.v1+json"
DOCKER_MANIFEST_V2 == "application/vnd.docker.distribution.manifest.v2+json"

\* An image manifest: a config descriptor and layer descriptors.
Manifest(id, mt, cfg, ls) ==
    [NoDoc EXCEPT !.id = id, !.mediaType = mt, !.config = DigestString(cfg),
                  !.layers = [k \in 1..Len(ls) |-> DigestString(ls[k])]]

\* An image config with its platform.
Config(id, os, arch) == [NoDoc EXCEPT !.id = id, !.os = os, !.architecture = arch]

\* An entry of an index: a descriptor with its platform ("" where absent).
Entry(mt, c, os, arch) ==
    [mediaType |-> mt, digest |-> DigestString(c), os |-> os, architecture |-> arch]

\* An image index or manifest list.
Index(id, mt, es) == [NoDoc EXCEPT !.id = id, !.mediaType = mt, !.manifests = es]

\* The blobs every registry of the model serves besides the root: two image
\* manifests of three layers that share one layer, their configs, the layers,
\* an index and an attestation.
Children ==
    { Manifest("b", MEDIA_TYPE_MANIFEST, "c", <<"l", "s", "p">>),
      Manifest("e", DOCKER_MANIFEST_V2, "d", <<"s", "m", "q">>),
      Config("c", "linux", "amd64"),
      Config("d", "linux", "arm64"),
      Index("n", MEDIA_TYPE_INDEX, <<Entry(MEDIA_TYPE_MANIFEST, "b", "linux", "amd64")>>),
      [NoDoc EXCEPT !.id = "l"], [NoDoc EXCEPT !.id = "s"], [NoDoc EXCEPT !.id = "m"],
      [NoDoc EXCEPT !.id = "p"], [NoDoc EXCEPT !.id = "q"],
      [NoDoc EXCEPT !.id = "a", !.mediaType = "application/vnd.in-toto+json"] }

\* The root documents: plain manifests of both families, indexes of both
\* families (with a skipped entry, with entries without a usable platform, with
\* a nested index) and a document of an unknown media type.
Roots ==
    { Manifest("0", MEDIA_TYPE_MANIFEST, "c", <<"l", "s">>),
      Manifest("1", DOCKER_MANIFEST_V2, "d", <<"s", "m">>),
      Index("2", MEDIA_TYPE_INDEX,
            <<Entry(MEDIA_TYPE_MANIFEST, "b", "linux", "amd64"),
              Entry(DOCKER_MANIFEST_V2, "e", "linux", "arm64")>>),
      Index("3", DOCKER_MANIFEST_LIST_V2,
            <<Entry(MEDIA_TYPE_MANIFEST, "b", "", ""),
              Entry("application/vnd.in-toto+json", "a", "", ""),
              Entry(DOCKER_MANIFEST_V2, "e", "plan9", "amd64")>>),
      Index("4", MEDIA_TYPE_INDEX,
            <<Entry(MEDIA_TYPE_MANIFEST, "b", "linux", "amd64"),
              Entry(MEDIA_TYPE_INDEX, "n", "", ""),
              Entry(DOCKER_MANIFEST_V2, "e", "linux", "arm64")>>),
      Index("5", DOCKER_MANIFEST_LIST_V2,
            <<Entry(DOCKER_MANIFEST_LIST_V2, "n", "", ""),
              Entry(MEDIA_TYPE_MANIFEST, "b", "linux", "amd64")>>),
      Manifest("6", "application/vnd.in-toto+json", "c", <<"l">>) }

\* Strings a user can write into the attributes.
Latest == <<"l", "a", "t", "e", "s", "t">>
ShortDigest == Sha256Prefix \o <<"a", "b", "c">>
Sha512Digest(c) == <<"s", "h", "a", "5", "1", "2", ":">> \o HexString(c)

\* The digest attribute: absent, the digest of the image, "sha256:abc", a
\* string of the right length with another prefix, bare hex, a string one
\* character too long.
AttrDigests(root) ==
    { <<>>, DigestString(root.id), ShortDigest, Sha512Digest(root.id),
      HexString(root.id), DigestString(root.id) \o <<root.id>> }

\* The tag attribute: absent, a tag, a string that looks like a digest.
AttrTags(root) == { <<>>, Latest, DigestString(root.id) }

\* What `img download-manifest --tag T --print-digest` can print.
ToolOutputs(root) == { DigestString(root.id), ShortDigest, <<>>, Latest }

\* The document the registry has under the sha256 named c.
Blob(reg, c) ==
    IF c = reg.root.id THEN reg.root
    ELSE IF \E d \in Children : d.id = c THEN CHOOSE d \in Children : d.id = c
    ELSE NoDoc

\* Bytes that are not those of doc: they hash to something else.
WrongBytes(doc) == [doc EXCEPT !.id = "x"]

\* GET /v2/<repository>/manifests/<reference> and /blobs/<digest>: a tag
\* names the root document, a digest names the blob that hashes to it; for the
\* digests of reg.bad the registry answers with other bytes.
Served(reg, reference) ==
    IF reference = Latest THEN reg.root
    ELSE IF Len(reference) = 71 /\ StartsWith(reference, Sha256Prefix)
              /\ reference = DigestString(reference[8])
           THEN LET doc == Blob(reg, reference[8]) IN
                IF doc # NoDoc /\ doc.id \in reg.bad THEN WrongBytes(doc) ELSE doc
           ELSE NoDoc

\* result.sha256: the hex sha256 of a downloaded document.
Sha256Hex(doc) == HexString(doc.id)

\* The files of the repository directory: blobs/sha256/<name>, manifest.json
\* and the file of learn_digest_from_tag.
ManifestJson == <<"manifest.json">>
TempManifest == <<"temp_manifest_for_digest_learning.json">>

\* rctx.download / the helper tool writes document doc to the output path.
WriteFile(rp, output, doc) ==
    IF output = ManifestJson THEN [rp EXCEPT !.manifest_json = doc]
    ELSE IF output = TempManifest THEN [rp EXCEPT !.temp_manifest = doc]
    ELSE [rp EXCEPT !.blobs = {b \in @ : b.name # output}
                                \cup {[name |-> output, data |-> doc]}]

\* rctx.path("blobs/sha256/" + name).exists
BlobExists(rp, name) == \E b \in rp.blobs : b.name = name

\* rctx.read("blobs/sha256/" + name)
ReadBlob(rp, name) == (CHOOSE b \in rp.blobs : b.name = name).data

\* One download, subprocess, cache lookup or message of the rule.
Event(kind, what, ref) == [kind |-> kind, what |-> what, ref |-> ref]

\* What a download function did: a struct returned or a fail(), the repository
\* directory afterwards, and its events in order.
Success(info, rp, es) == [ok |-> TRUE, msg |-> "", info |-> info, repo |-> rp, events |-> es]
Failure(msg, rp, es) == [ok |-> FALSE, msg |-> msg, info |-> NoInfo, repo |-> rp, events |-> es]

\* A lookup that finds nothing.
CheckNothing(rp, dg) == NoInfo

\* _check_existing_blob: None for a digest shorter than 64 characters or
\* without a file, else the struct of the file.
CheckExistingBlob(rp, dg) ==
    IF Len(dg) < 64 THEN NoInfo
    ELSE LET blob_path == RemovePrefix(dg, Sha256Prefix) IN
         IF ~BlobExists(rp, blob_path) THEN NoInfo
         ELSE [digest |-> dg, path |-> blob_path, data |-> ReadBlob(rp, blob_path),
               waiter |-> "None"]

\* The events of _check_existing_blob: the lookup of the file, when it is made.
CheckEvents(dg) ==
    IF Len(dg) < 64 THEN <<>> ELSE <<Event("exists", "blob", dg)>>

\* download_manifest_bazel: rctx.download of the manifest URLs, with the
\* checksum when the reference is taken for a digest.  The download fails when
\* no registry serves the reference or the checksum does not match.
DownloadManifestBazel(reg, rp, reference, sha256, have_valid_digest) ==
    LET output == IF have_valid_digest THEN sha256 ELSE ManifestJson
        doc == Served(reg, reference)
        es == <<Event("download", "manifest", reference)>>
    IN {Failure("download failed", rp, es)} \cup
       IF doc = NoDoc \/ (have_valid_digest /\ Sha256Hex(doc) # sha256)
         THEN {}
         ELSE {Success([digest |-> IF have_valid_digest THEN reference
                                   ELSE Sha256Prefix \o Sha256Hex(doc),
                        path |-> output, data |-> doc, waiter |-> "None"],
                       WriteFile(rp, output, doc), es)}

\* download_manifest_img_tool: `img download-manifest` with --digest or --tag.
DownloadManifestImgTool(reg, rp, reference, sha256, have_valid_digest) ==
    LET destination == IF have_valid_digest THEN sha256 ELSE ManifestJson
        doc == Served(reg, reference)
        es == <<Event("execute", "manifest", reference)>>
    IN {Failure("Failed to download manifest", rp, es)} \cup
       IF doc = NoDoc \/ (have_valid_digest /\ Sha256Hex(doc) # sha256)
         THEN {}
         ELSE {Success([digest |-> IF have_valid_digest THEN reference ELSE <<>>,
                        path |-> destination, data |-> doc, waiter |-> "None"],
                       WriteFile(rp, destination, doc), es)}

\* download_manifest: the backend, then the failure for a reference that was
\* not taken for a digest.
DownloadManifest(reg, rp, downloader, reference, sha256, have_valid_digest) ==
    LET results == IF downloader = "bazel"
                     THEN DownloadManifestBazel(reg, rp, reference, sha256, have_valid_digest)
                     ELSE DownloadManifestImgTool(reg, rp, reference, sha256, have_valid_digest)
    IN {IF r.ok /\ ~have_valid_digest
          THEN Failure("Missing valid image digest", r.repo, r.events)
          ELSE r : r \in results}

\* download_manifest_rctx: a reference that starts with "sha256:" is taken for
\* a digest, looked up among the blobs and downloaded to blobs/sha256/; any
\* other reference is downloaded to manifest.json.
DownloadManifestRctx(reg, rp, downloader, reference) ==
    LET have_valid_digest == StartsWith(reference, Sha256Prefix)
        sha256 == IF have_valid_digest THEN RemovePrefix(reference, Sha256Prefix) ELSE <<>>
        maybe_existing == IF have_valid_digest THEN CheckExistingBlob(rp, reference) ELSE NoInfo
        checked == IF have_valid_digest THEN CheckEvents(reference) ELSE <<>>
    IN IF maybe_existing # NoInfo
         THEN {Success(maybe_existing, rp, checked)}
         ELSE {[r EXCEPT !.events = checked \o @] :
                 r \in DownloadManifest(reg, rp, downloader, reference, sha256, have_valid_digest)}

\* download_blob with the default output: the blob is looked up in
\* blobs/sha256/ first; rctx.download with block = wait_and_read returns a
\* waiter (the file is written when the download is waited for), the helper
\* tool runs to its end.
DownloadBlob(reg, rp, downloader, dg, wait_and_read) ==
    LET sha256 == RemovePrefix(dg, Sha256Prefix)
        maybe_existing == CheckExistingBlob(rp, dg)
        doc == Served(reg, dg)
        served == doc # NoDoc /\ Sha256Hex(doc) = sha256
        info(w) == [digest |-> dg, path |-> sha256,
                    data |-> IF wait_and_read THEN doc ELSE NoDoc, waiter |-> w]
    IN IF maybe_existing # NoInfo
         THEN {Success([maybe_existing EXCEPT !.data = IF wait_and_read THEN @ ELSE NoDoc],
                       rp, CheckEvents(dg))}
         ELSE IF downloader = "bazel"
           THEN LET es == CheckEvents(dg) \o <<Event("download", "blob", dg)>> IN
                IF ~wait_and_read
                  THEN {Success(info("pending"), rp, es)}
                  ELSE {Failure("download failed", rp, es)} \cup
                       IF served THEN {Success(info("done"), WriteFile(rp, sha256, doc), es)}
                       ELSE {}
           ELSE LET es == CheckEvents(dg) \o <<Event("execute", "blob", dg)>> IN
                {Failure("Failed to download blob", rp, es)} \cup
                IF served THEN {Success(info("None"), WriteFile(rp, sha256, doc), es)}
                ELSE {}

\* An assignment that is lost.
PutNothing(dict, k, v) == dict

\* dict[k] = v on a dict kept as a set of key/value pairs.
Put(dict, k, v) == {e \in dict : e.key # k} \cup {[key |-> k, value |-> v]}
Keys(dict) == {e.key : e \in dict}

\* An insert that does not look for the element.
InsertAlways(set, x) == Append(set, x)

\* A loop over the layers that shallow layer handling leaves out.
InsertAllUnlessShallow(set, xs) ==
    IF attr.layer_handling = "shallow" THEN set
    ELSE set \o SelectSeq(xs, LAMBDA x : \A k \in 1..Len(set) : set[k] # x)

\* sets.insert on an insertion-ordered set.
Insert(set, x) == IF \E k \in 1..Len(set) : set[k] = x THEN set ELSE Append(set, x)

RECURSIVE InsertAll(_, _)
InsertAll(set, xs) ==
    IF xs = <<>> THEN set ELSE InsertAll(Insert(set, Head(xs)), Tail(xs))

\* has_constraint_setting(os, arch): the platforms of the constraint table.
has_constraint_setting(os, arch) ==
    <<os, arch>> \in {<<"linux", "amd64">>, <<"linux", "arm64">>}

\* get_media_type(root_blob)
get_media_type(doc) == doc.mediaType

\* A step of the rule goes on at label l; the blob store is not involved.
Goto(l) ==
    rpc' = l /\ UNCHANGED <<failed, earlier>> /\ UNCHANGED vars /\ UNCHANGED toolVars

\* A failure that is noted while the rule goes on to write its result.
FailGoesOn(msg) ==
    /\ rpc' = "build" /\ failed' = msg
    /\ UNCHANGED earlier /\ UNCHANGED vars /\ UNCHANGED toolVars

\* fail(msg): the rule is aborted.
Fail(msg) ==
    /\ rpc' = "failed" /\ failed' = msg
    /\ UNCHANGED earlier /\ UNCHANGED vars /\ UNCHANGED toolVars

\* The rule is instantiated with its attributes, against a registry.
Pull(a, reg) ==
    /\ rpc = "idle"
    /\ attr' = a
    /\ registry' = reg
    /\ Goto("validate")
    /\ UNCHANGED <<loc, repo, events>>

\* A validity test that looks at the prefix only.
HaveValidDigestPrefixOnly(dg) == StartsWith(dg, Sha256Prefix)

\* have_valid_digest of _pull_impl
HaveValidDigest(dg) ==
    IF Len(dg) # 71 THEN FALSE
    ELSE IF ~StartsWith(dg, Sha256Prefix) THEN FALSE
    ELSE TRUE

\* The validity test of the digest attribute, and whether to learn the digest.
ValidateDigest ==
    /\ rpc = "validate"
    /\ loc' = [loc EXCEPT !.have_valid_digest = HaveValidDigest(attr.digest),
                          !.digest = attr.digest]
    /\ Goto(IF ~HaveValidDigest(attr.digest) /\ attr.unsafe_allow_tag_without_digest
              THEN "learn" ELSE "reference")
    /\ UNCHANGED <<attr, registry, repo, events>>

\* learn_digest_from_tag with Bazel's downloader: the digest is the sha256 of
\* the manifest downloaded by tag.
LearnBazel ==
    /\ rpc = "learn" /\ attr.downloader = "bazel"
    /\ events' = Append(events, Event("download", "learn", attr.tag))
    /\ \E o \in {"ok", "fail"} :
         LET doc == Served(registry, attr.tag)
             learned_digest == Sha256Prefix \o Sha256Hex(doc)
         IN IF o = "fail" \/ doc = NoDoc
              THEN Fail("download failed") /\ UNCHANGED <<loc, repo>>
              ELSE /\ repo' = WriteFile(repo, TempManifest, doc)
                   /\ loc' = IF Len(learned_digest) > 0
                               THEN [loc EXCEPT !.digest = learned_digest,
                                                !.have_valid_digest = TRUE]
                               ELSE loc
                   /\ Goto("reference")
    /\ UNCHANGED <<attr, registry>>

\* learn_digest_from_tag with the helper tool: the digest is what the tool
\* prints, accepted when it is not empty and starts with "sha256:".
LearnImgTool ==
    /\ rpc = "learn" /\ attr.downloader # "bazel"
    /\ events' = Append(events, Event("execute", "learn", attr.tag))
    /\ \E o \in {"ok", "fail"}, learned_digest \in ToolOutputs(registry.root) :
         IF o = "fail"
           THEN Fail("Failed to learn digest from tag") /\ UNCHANGED loc
           ELSE IF Len(learned_digest) > 0 /\ StartsWith(learned_digest, Sha256Prefix)
                  THEN /\ loc' = [loc EXCEPT !.digest = learned_digest,
                                             !.have_valid_digest = TRUE]
                       /\ Goto("reference")
                  ELSE /\ Fail("Failed to learn digest from tag: invalid digest output")
                       /\ UNCHANGED loc
    /\ UNCHANGED <<attr, registry, repo>>

\* A rule whose reference is always the tag.
ReferenceIsTag ==
    /\ rpc = "reference"
    /\ loc' = [loc EXCEPT !.reference = attr.tag]
    /\ IF Len(attr.tag) = 0
         THEN Fail("either digest or tag must be specified")
         ELSE Goto(IF attr.downloader = "img_tool" THEN "tool" ELSE "root")
    /\ UNCHANGED <<attr, registry, repo, events>>

\* A rule whose reference is always the digest.
ReferenceIsDigest ==
    /\ rpc = "reference"
    /\ loc' = [loc EXCEPT !.reference = loc.digest]
    /\ IF Len(loc.digest) = 0
         THEN Fail("either digest or tag must be specified")
         ELSE Goto(IF attr.downloader = "img_tool" THEN "tool" ELSE "root")
    /\ UNCHANGED <<attr, registry, repo, events>>

\* reference = digest if have_valid_digest else tag
Reference ==
    /\ rpc = "reference"
    /\ LET reference == IF loc.have_valid_digest THEN loc.digest ELSE attr.tag IN
       /\ loc' = [loc EXCEPT !.reference = reference]
       /\ IF Len(reference) = 0
            THEN Fail("either digest or tag must be specified")
            ELSE Goto(IF attr.downloader = "img_tool" THEN "tool" ELSE "root")
    /\ UNCHANGED <<attr, registry, repo, events>>

\* The blobs `img pull` can leave in blobs/sha256/: the root document, the
\* manifests and configs it leads to, and with eager layer handling the layers.
Pulled(reg, layer_handling) ==
    LET root == reg.root
        direct == {Blob(reg, e.digest[8]) : e \in {root.manifests[k] : k \in 1..Len(root.manifests)}}
        manifests == {m \in {root} \cup direct : m.mediaType \in {MEDIA_TYPE_MANIFEST, DOCKER_MANIFEST_V2}}
        configs == {Blob(reg, m.config[8]) : m \in manifests}
        layers == IF layer_handling = "eager"
                    THEN UNION {{Blob(reg, m.layers[k][8]) : k \in 1..Len(m.layers)} : m \in manifests}
                    ELSE {}
    IN {[name |-> Sha256Hex(d), data |-> d] :
          d \in {root} \cup manifests \cup configs \cup layers}

\* download_with_tool: `img pull --reference=...` before the downloads.
DownloadWithTool ==
    /\ rpc = "tool"
    /\ events' = Append(events, Event("execute", "pull", loc.reference))
    /\ \E o \in {"ok", "fail"} :
         IF o = "fail" \/ Served(registry, loc.reference) = NoDoc
           THEN Fail("img tool failed") /\ UNCHANGED repo
           ELSE /\ \E written \in {{}, Pulled(registry, attr.layer_handling)} :
                     repo' = [repo EXCEPT !.blobs = @ \cup written]
                /\ Goto("root")
    /\ UNCHANGED <<attr, registry, loc>>

\* print("Specified docker.io as registry. ...")
DockerHint ==
    IF attr.registry = "docker.io" THEN <<Event("print", "docker.io", <<>>)>> ELSE <<>>

\* The download of the root manifest by the reference.
RootManifest ==
    /\ rpc = "root"
    /\ \E r \in DownloadManifestRctx(registry, repo, attr.downloader, loc.reference) :
         /\ repo' = r.repo
         /\ events' = events \o DockerHint \o r.events
         /\ IF r.ok
              THEN /\ loc' = [loc EXCEPT !.root_blob_info = r.info,
                                         !.data = Put({}, r.info.digest, r.info.data),
                                         !.media_type = get_media_type(r.info.data)]
                   /\ Goto("classify")
              ELSE Fail(r.msg) /\ UNCHANGED loc
    /\ UNCHANGED <<attr, registry>>

\* A classification that knows the OCI media types only.
ClassifyOciOnly ==
    /\ rpc = "classify"
    /\ IF loc.media_type = MEDIA_TYPE_INDEX
         THEN /\ loc' = [loc EXCEPT !.is_index = TRUE,
                                    !.manifests = loc.root_blob_info.data.manifests]
              /\ Goto("walk")
         ELSE IF loc.media_type = MEDIA_TYPE_MANIFEST
           THEN /\ loc' = [loc EXCEPT !.is_index = FALSE,
                                      !.manifests = <<[mediaType |-> MEDIA_TYPE_MANIFEST,
                                                       digest |-> loc.digest,
                                                       os |-> "", architecture |-> ""]>>]
                /\ Goto("walk")
           ELSE Fail("invalid mediaType in manifest") /\ UNCHANGED loc
    /\ UNCHANGED <<attr, registry, repo, events>>

\* The classification of the root document by its media type.
Classify ==
    /\ rpc = "classify"
    /\ IF loc.media_type \in {MEDIA_TYPE_INDEX, DOCKER_MANIFEST_LIST_V2}
         THEN /\ loc' = [loc EXCEPT !.is_index = TRUE,
                                    !.manifests = loc.root_blob_info.data.manifests]
              /\ Goto("walk")
         ELSE IF loc.media_type \in {MEDIA_TYPE_MANIFEST, DOCKER_MANIFEST_V2}
           THEN /\ loc' = [loc EXCEPT !.is_index = FALSE,
                                      !.manifests = <<[mediaType |-> MEDIA_TYPE_MANIFEST,
                                                       digest |-> loc.digest,
                                                       os |-> "", architecture |-> ""]>>]
                /\ Goto("walk")
           ELSE Fail("invalid mediaType in manifest") /\ UNCHANGED loc
    /\ UNCHANGED <<attr, registry, repo, events>>

\* A loop that skips a nested index as it skips the other media types.
WalkSkipsNested ==
    /\ rpc = "walk"
    /\ IF loc.i > Len(loc.manifests)
         THEN Goto("files") /\ UNCHANGED loc
         ELSE LET manifest_index == loc.manifests[loc.i] IN
              IF ~(manifest_index.mediaType \in {MEDIA_TYPE_MANIFEST, DOCKER_MANIFEST_V2})
                THEN /\ loc' = [loc EXCEPT !.i = @ + 1]
                     /\ Goto("walk")
                ELSE IF loc.is_index
                  THEN Goto("child") /\ UNCHANGED loc
                  ELSE /\ loc' = [loc EXCEPT !.manifest_info = loc.root_blob_info]
                       /\ Goto("config")
    /\ UNCHANGED <<attr, registry, repo, events>>

\* A loop that walks the OCI image manifests only.
WalkOciOnly ==
    /\ rpc = "walk"
    /\ IF loc.i > Len(loc.manifests)
         THEN Goto("files") /\ UNCHANGED loc
         ELSE LET manifest_index == loc.manifests[loc.i] IN
              IF manifest_index.mediaType \in {MEDIA_TYPE_INDEX, DOCKER_MANIFEST_LIST_V2}
                THEN Fail("Nested indexes are not supported") /\ UNCHANGED loc
                ELSE IF manifest_index.mediaType # MEDIA_TYPE_MANIFEST
                  THEN /\ loc' = [loc EXCEPT !.i = @ + 1]
                       /\ Goto("walk")
                  ELSE IF loc.is_index
                    THEN Goto("child") /\ UNCHANGED loc
                    ELSE /\ loc' = [loc EXCEPT !.manifest_info = loc.root_blob_info]
                         /\ Goto("config")
    /\ UNCHANGED <<attr, registry, repo, events>>

\* The head of the loop over the manifests: a nested index aborts the rule,
\* an entry of another media type is skipped.
Walk ==
    /\ rpc = "walk"
    /\ IF loc.i > Len(loc.manifests)
         THEN Goto("files") /\ UNCHANGED loc
         ELSE LET manifest_index == loc.manifests[loc.i] IN
              IF manifest_index.mediaType \in {MEDIA_TYPE_INDEX, DOCKER_MANIFEST_LIST_V2}
                THEN Fail("Nested indexes are not supported") /\ UNCHANGED loc
                ELSE IF ~(manifest_index.mediaType \in {MEDIA_TYPE_MANIFEST, DOCKER_MANIFEST_V2})
                  THEN /\ loc' = [loc EXCEPT !.i = @ + 1]
                       /\ Goto("walk")
                  ELSE IF loc.is_index
                    THEN Goto("child") /\ UNCHANGED loc
                    ELSE /\ loc' = [loc EXCEPT !.manifest_info = loc.root_blob_info]
                         /\ Goto("config")
    /\ UNCHANGED <<attr, registry, repo, events>>

\* The download of a child of the index by the digest of its entry, and the
\* platform of the entry.
ChildManifest ==
    /\ rpc = "child"
    /\ LET manifest_index == loc.manifests[loc.i]
           os == manifest_index.os
           arch == manifest_index.architecture
       IN \E r \in DownloadManifestRctx(registry, repo, attr.downloader, manifest_index.digest) :
            /\ repo' = r.repo
            /\ events' = events \o r.events
            /\ IF r.ok
                 THEN /\ loc' = [loc EXCEPT
                                   !.manifest_info = r.info,
                                   !.data = Put(@, r.info.digest, r.info.data),
                                   !.platforms_set =
                                       IF os # "" /\ arch # "" /\ has_constraint_setting(os, arch)
                                         THEN @ \cup {<<os, arch>>} ELSE @]
                      /\ Goto("config")
                 ELSE Fail(r.msg) /\ UNCHANGED loc
    /\ UNCHANGED <<attr, registry>>

\* The download of the config of the manifest, the platform of the config
\* when the root is a manifest, and the layers of the manifest.
ConfigBlob ==
    /\ rpc = "config"
    /\ LET manifest == loc.manifest_info.data IN
       \E r \in DownloadBlob(registry, repo, attr.downloader, manifest.config, TRUE) :
            /\ repo' = r.repo
            /\ events' = events \o r.events
            /\ IF r.ok
                 THEN LET os == r.info.data.os
                          arch == r.info.data.architecture
                      IN
                      /\ loc' = [loc EXCEPT
                                   !.data = Put(@, r.info.digest, r.info.data),
                                   !.platforms_set =
                                       IF ~loc.is_index /\ os # "" /\ arch # ""
                                            /\ has_constraint_setting(os, arch)
                                         THEN @ \cup {<<os, arch>>} ELSE @,
                                   !.layer_digests = InsertAll(@, manifest.layers),
                                   !.i = @ + 1]
                      /\ Goto("walk")
                 ELSE Fail(r.msg) /\ UNCHANGED loc
    /\ UNCHANGED <<attr, registry>>

\* The label of a file: "//:blobs/sha256/<hex>" for a manifest or config,
\* "//:<path>" for a downloaded layer, "//:sha256_<hex>" for a lazy layer.
Label(kind, dg) == [kind |-> kind, name |-> RemovePrefix(dg, Sha256Prefix)]

\* A rule that downloads the layers whatever the layer handling.
FilesAlwaysEager ==
    /\ rpc = "files"
    /\ loc' = [loc EXCEPT !.files =
                 {[key |-> dg, value |-> Label("blobs", dg)] : dg \in Keys(loc.data)}]
    /\ Goto("layers")
    /\ UNCHANGED <<attr, registry, repo, events>>

\* The files map of the manifests and configs, and of the layers with lazy
\* layer handling.
Files ==
    /\ rpc = "files"
    /\ LET files == {[key |-> dg, value |-> Label("blobs", dg)] : dg \in Keys(loc.data)}
           layers == {loc.layer_digests[k] : k \in 1..Len(loc.layer_digests)}
       IN IF attr.layer_handling = "eager"
            THEN loc' = [loc EXCEPT !.files = files] /\ Goto("layers")
            ELSE IF attr.layer_handling = "lazy"
              THEN /\ loc' = [loc EXCEPT !.files =
                                 {f \in files : f.key \notin layers}
                                   \cup {[key |-> dg, value |-> Label("lazy", dg)] : dg \in layers}]
                   /\ Goto("build")
              ELSE loc' = [loc EXCEPT !.files = files] /\ Goto("build")
    /\ UNCHANGED <<attr, registry, repo, events>>

\* A first loop that leaves out a layer whose download failed.
StartLayerSkipsFailed ==
    /\ rpc = "layers"
    /\ IF loc.j > Len(loc.layer_digests)
         THEN /\ loc' = [loc EXCEPT !.j = 1]
              /\ Goto("wait")
              /\ UNCHANGED <<repo, events>>
         ELSE \E r \in DownloadBlob(registry, repo, attr.downloader,
                                    loc.layer_digests[loc.j], FALSE) :
                /\ repo' = r.repo
                /\ events' = events \o r.events
                /\ loc' = [loc EXCEPT !.downloaded_layers =
                                          IF r.ok THEN Append(@, r.info) ELSE @,
                                      !.j = @ + 1]
                /\ Goto("layers")
    /\ UNCHANGED <<attr, registry>>

\* download_layers, first loop: download_blob(wait_and_read = False) of the
\* next layer digest.
StartLayer ==
    /\ rpc = "layers"
    /\ IF loc.j > Len(loc.layer_digests)
         THEN /\ loc' = [loc EXCEPT !.j = 1]
              /\ Goto("wait")
              /\ UNCHANGED <<repo, events>>
         ELSE \E r \in DownloadBlob(registry, repo, attr.downloader,
                                    loc.layer_digests[loc.j], FALSE) :
                /\ repo' = r.repo
                /\ events' = events \o r.events
                /\ IF r.ok
                     THEN /\ loc' = [loc EXCEPT !.downloaded_layers = Append(@, r.info),
                                                !.j = @ + 1]
                          /\ Goto("layers")
                     ELSE Fail(r.msg) /\ UNCHANGED loc
    /\ UNCHANGED <<attr, registry>>

\* A second loop that does not wait for the downloads.
WaitLayerNoWait ==
    /\ rpc = "wait"
    /\ loc' = [loc EXCEPT !.files =
                 {f \in @ : \A k \in 1..Len(loc.downloaded_layers) :
                               loc.downloaded_layers[k].digest # f.key}
                   \cup {[key |-> loc.downloaded_layers[k].digest,
                          value |-> Label("blobs", loc.downloaded_layers[k].digest)] :
                            k \in 1..Len(loc.downloaded_layers)}]
    /\ Goto("build")
    /\ UNCHANGED <<attr, registry, repo, events>>

\* download_layers, second loop: layer.waiter.wait() of the next layer; after
\* the last one the layers are added to the files map.
WaitLayer ==
    /\ rpc = "wait"
    /\ IF loc.j > Len(loc.downloaded_layers)
         THEN /\ loc' = [loc EXCEPT !.files =
                            {f \in @ : \A k \in 1..Len(loc.downloaded_layers) :
                                          loc.downloaded_layers[k].digest # f.key}
                              \cup {[key |-> loc.downloaded_layers[k].digest,
                                     value |-> Label("blobs", loc.downloaded_layers[k].digest)] :
                                       k \in 1..Len(loc.downloaded_layers)}]
              /\ Goto("build")
              /\ UNCHANGED <<repo, events>>
         ELSE LET layer == loc.downloaded_layers[loc.j]
                  doc == Served(registry, layer.digest)
              IN IF layer.waiter = "pending"
                   THEN \E o \in {"ok", "fail"} :
                          IF o = "fail" \/ doc = NoDoc \/ Sha256Hex(doc) # layer.path
                            THEN Fail("download failed") /\ UNCHANGED <<loc, repo, events>>
                            ELSE /\ repo' = WriteFile(repo, layer.path, doc)
                                 /\ events' = Append(events, Event("wait", "blob", layer.digest))
                                 /\ loc' = [loc EXCEPT !.j = @ + 1]
                                 /\ Goto("wait")
                   ELSE /\ loc' = [loc EXCEPT !.j = @ + 1]
                        /\ Goto("wait")
                        /\ UNCHANGED <<repo, events>>
    /\ UNCHANGED <<attr, registry>>

\* A BUILD file without the download_blobs target.
WriteBuildWithoutDownloadBlobs ==
    /\ rpc = "build"
    /\ repo' = [repo EXCEPT !.BUILD =
                   {[digest |-> loc.digest, data |-> loc.data, files |-> loc.files,
                     registries |-> attr.registry,
                     tag |-> attr.tag, target_compatible_with |-> loc.platforms_set,
                     download_blobs |-> [digests |-> <<>>, sources |-> ""]]}]
    /\ Goto("done")
    /\ UNCHANGED <<attr, registry, loc, events>>

\* rctx.file("BUILD.bazel", ...): the image_import target with the digest,
\* the data and files maps, the tag and the platforms, and with lazy layer
\* handling the download_blobs target of the layers.
WriteBuild ==
    /\ rpc = "build"
    /\ repo' = [repo EXCEPT !.BUILD =
                   {[digest |-> loc.digest, data |-> loc.data, files |-> loc.files,
                     registries |-> attr.registry,
                     tag |-> attr.tag, target_compatible_with |-> loc.platforms_set,
                     download_blobs |->
                         IF attr.layer_handling = "lazy"
                           THEN [digests |-> [k \in 1..Len(loc.layer_digests) |->
                                                Replace(loc.layer_digests[k], Sha256Prefix,
                                                        Sha256Underscore)],
                                 sources |-> attr.registry]
                           ELSE [digests |-> <<>>, sources |-> ""]]}]
    /\ Goto("done")
    /\ UNCHANGED <<attr, registry, loc, events>>

\* The attributes a pull rule can be given for an image.
Attrs(root) ==
    [registry : {"docker.io", "index.docker.io"},
     digest : AttrDigests(root), tag : AttrTags(root),
     unsafe_allow_tag_without_digest : BOOLEAN,
     downloader : {"img_tool", "bazel"},
     layer_handling : {"shallow", "eager", "lazy"}]

\* The registries serve one of the images.
Registries == {[root |-> root, bad |-> {}] : root \in Roots}

PullNext ==
    \/ \E reg \in Registries : \E a \in Attrs(reg.root) : Pull(a, reg)
    \/ ValidateDigest
    \/ LearnBazel
    \/ LearnImgTool
    \/ Reference
    \/ DownloadWithTool
    \/ RootManifest
    \/ Classify
    \/ Walk
    \/ ChildManifest
    \/ ConfigBlob
    \/ Files
    \/ StartLayer
    \/ WaitLayer
    \/ WriteBuild

PullSpec == Init /\ [][PullNext]_<<vars, pullVars>>

\* The layer digests of the manifests the registry serves.
AllLayers ==
    UNION {{d.layers[k] : k \in 1..Len(d.layers)} : d \in Children \cup {registry.root}}

\* What a pull has done for the manifests and configs, and what it has found:
\* the references it asked for in order, its downloads, subprocesses and
\* lookups in order, whether the root manifest was on disk, and the data map,
\* the layer digests and the platforms.
Summary ==
    LET fetches == SelectSeq(events, LAMBDA e : e.ref \notin AllLayers) IN
    [layer_handling |-> attr.layer_handling,
     cached |-> ~\E k \in 1..Len(events) :
                    /\ events[k].what = "manifest"
                    /\ events[k].ref = loc.reference,
     requests |-> SelectSeq(fetches, LAMBDA e : e.kind = "exists"),
     fetches |-> fetches,
     data |-> loc.data,
     layer_digests |-> loc.layer_digests,
     platforms_set |-> loc.platforms_set]

\* The same image is pulled again from the same registry into a fresh
\* repository directory, by a rule that differs in its layer handling.
Again(layer_handling) ==
    /\ rpc = "done"
    /\ earlier = NoSummary
    /\ layer_handling # attr.layer_handling
    /\ earlier' = Summary
    /\ attr' = [attr EXCEPT !.layer_handling = layer_handling]
    /\ rpc' = "validate"
    /\ loc' = NoLoc
    /\ repo' = EmptyRepo
    /\ events' = <<>>
    /\ UNCHANGED <<registry, failed>>
    /\ UNCHANGED vars
    /\ UNCHANGED toolVars

PairNext ==
    \/ PullNext
    \/ \E layer_handling \in {"shallow", "eager", "lazy"} : Again(layer_handling)

PairSpec == Init /\ [][PairNext]_<<vars, pullVars>>

(***************************************************************************)
(* One download through the mirrors of a source.  sources is the dict the *)
(* download functions are given, in its order: repository -> registries.  *)
(* The functions make one URL per registry and hand the list to           *)
(* rctx.download, which asks the URLs one after the other.                 *)
(***************************************************************************)
\* The registries of the model, and how many a source can list.
Hosts == {"mirror.gcr.io", "index.docker.io", "ghcr.io"}
MaxRegistries == 3

\* The concatenation of a sequence of sequences.
RECURSIVE Flatten(_)
Flatten(ss) == IF ss = <<>> THEN <<>> ELSE Head(ss) \o Flatten(Tail(ss))

\* The sources dicts: one repository with up to MaxRegistries registries,
\* alone or followed by a second repository with one registry.
MirrorSources ==
    LET first == [repository : {"library/ubuntu"},
                  registries : UNION {[1..n -> Hosts] : n \in 1..MaxRegistries}]
        second == [repository : {"library/debian"}, registries : [1..1 -> Hosts]]
    IN {<<a>> : a \in first} \cup {<<a, b>> : a \in first, b \in second}

\* A list of URLs with the registries of every source in reverse.
UrlsLastFirst(sources, what, reference) ==
    Flatten([i \in 1..Len(sources) |->
               [k \in 1..Len(sources[i].registries) |->
                  [protocol |-> "https",
                   registry |-> sources[i].registries[Len(sources[i].registries) + 1 - k],
                   repository |-> sources[i].repository,
                   what |-> what, reference |-> reference]]])

\* urls: "{protocol}://{registry}/v2/{repository}/{what}/{reference}" for
\* every repository of sources and every registry of the repository.
Urls(sources, what, reference) ==
    Flatten([i \in 1..Len(sources) |->
               [k \in 1..Len(sources[i].registries) |->
                  [protocol |-> "https",
                   registry |-> sources[i].registries[k],
                   repository |-> sources[i].repository,
                   what |-> what, reference |-> reference]]])

\* download_blob, download_manifest_bazel or learn_digest_from_tag with
\* downloader = "bazel" builds the URLs of a blob or a manifest; up are the
\* registries that answer the request with the content.
MirrorStart(sources, up, what, reference) ==
    /\ fetch.phase = "idle"
    /\ fetch' = [NoFetch EXCEPT !.phase = "download", !.sources = sources, !.up = up,
                                !.urls = Urls(sources, what, reference)]
    /\ UNCHANGED <<client, WarnedURIs, warnMutex, stderr>>
    /\ UNCHANGED vars
    /\ UNCHANGED pullVars

\* rctx.download(url = urls): the next URL is asked; the download ends with
\* the first URL that gives the content, or fails after the last one.
MirrorAttempt ==
    /\ fetch.phase = "download"
    /\ LET k == Len(fetch.tried) + 1 IN
       IF k > Len(fetch.urls)
         THEN fetch' = [fetch EXCEPT !.phase = "done", !.ok = FALSE]
         ELSE fetch' = [fetch EXCEPT
                          !.tried = Append(@, fetch.urls[k]),
                          !.phase = IF fetch.urls[k].registry \in fetch.up
                                      THEN "done" ELSE "download",
                          !.ok = fetch.urls[k].registry \in fetch.up]
    /\ UNCHANGED <<client, WarnedURIs, warnMutex, stderr>>
    /\ UNCHANGED vars
    /\ UNCHANGED pullVars

MirrorNext ==
    \/ \E sources \in MirrorSources, up \in SUBSET Hosts,
          what \in {"blobs", "manifests"} :
         \E reference \in {DigestString("0"), Latest} :
            MirrorStart(sources, up, what, reference)
    \/ MirrorAttempt

MirrorSpec == Init /\ [][MirrorNext]_<<vars, pullVars, toolVars>>

(***************************************************************************)
(* One fetch by digest, of a manifest or of a blob, into a repository     *)
(* directory that can hold the blob already, as it was written or altered *)
(* since, from a registry that can answer with other bytes.               *)
(***************************************************************************)
\* What blobs/sha256/ can hold of a blob: nothing, its bytes, other bytes.
OnDisk(c) ==
    { {}, {[name |-> HexString(c), data |-> Blob(NoRegistry, c)]},
      {[name |-> HexString(c), data |-> WrongBytes(Blob(NoRegistry, c))]} }

\* The rule is about to fetch, with a downloader, from a registry, into a
\* directory.
Prepare(downloader, bad, blobs) ==
    /\ rpc = "idle"
    /\ attr' = [NoAttr EXCEPT !.downloader = downloader]
    /\ registry' = [root |-> Blob(NoRegistry, "b"), bad |-> bad]
    /\ repo' = [EmptyRepo EXCEPT !.blobs = blobs]
    /\ Goto("ready")
    /\ UNCHANGED <<loc, events>>

\* download_manifest_rctx of a digest.
FetchManifest(dg) ==
    /\ rpc = "ready"
    /\ \E r \in DownloadManifestRctx(registry, repo, attr.downloader, dg) :
         /\ repo' = r.repo
         /\ events' = r.events
         /\ loc' = [loc EXCEPT !.reference = dg, !.root_blob_info = r.info]
         /\ IF r.ok THEN Goto("fetched") ELSE Fail(r.msg)
    /\ UNCHANGED <<attr, registry>>

\* download_blob of a digest.
FetchBlob(dg, wait_and_read) ==
    /\ rpc = "ready"
    /\ \E r \in DownloadBlob(registry, repo, attr.downloader, dg, wait_and_read) :
         /\ repo' = r.repo
         /\ events' = r.events
         /\ loc' = [loc EXCEPT !.reference = dg, !.root_blob_info = r.info]
         /\ IF r.ok THEN Goto("fetched") ELSE Fail(r.msg)
    /\ UNCHANGED <<attr, registry>>

\* The digests of the fetches: a manifest, a config, a blob no one serves.
FetchNext ==
    LET digests == {DigestString("b"), DigestString("c"), DigestString("z")} IN
    \/ \E downloader \in {"img_tool", "bazel"}, bad \in SUBSET {"b", "c"},
          b \in OnDisk("b"), c \in OnDisk("c") :
         Prepare(downloader, bad, b \cup c)
    \/ \E dg \in digests : FetchManifest(dg)
    \/ \E dg \in digests, wait_and_read \in BOOLEAN : FetchBlob(dg, wait_and_read)

FetchSpec == Init /\ [][FetchNext]_<<vars, pullVars>>

(***************************************************************************)
(* protohelper.Client called by several goroutines.  A URI is a string   *)
(* (a sequence of characters); url.Parse gives its scheme in lower case,  *)
(* its userinfo and its host.                                              *)
(***************************************************************************)
\* Calls of Client per goroutine.
MaxCalls == 2

\* The printable characters in the order of their codes, the first is 33;
\* the double quote, the backslash and the backtick are written as words.
Printable ==
    <<
      "!", "quote", "#", "$", "%", "&", "'", "(", ")", "*", "+", ",", "-", ".",
      "/", "0", "1", "2", "3", "4", "5", "6", "7", "8", "9", ":", ";", "<",
      "=", ">", "?", "@", "A", "B", "C", "D", "E", "F", "G", "H", "I", "J",
      "K", "L", "M", "N", "O", "P", "Q", "R", "S", "T", "U", "V", "W", "X",
      "Y", "Z", "[", "backslash", "]", "^", "_", "backtick", "a", "b", "c", "d", "e", "f",
      "g", "h", "i", "j", "k", "l", "m", "n", "o", "p", "q", "r", "s", "t",
      "u", "v", "w", "x", "y", "z", "{", "|", "}", "~" >>

\* []byte(s) of a string of printable characters.
Bytes(s) ==
    [k \in 1..Len(s) |-> 32 + CHOOSE n \in 1..Len(Printable) : Printable[n] = s[k]]

\* url's unescape: "%" and two hex digits give the character of that code.
RECURSIVE Unescape(_)
Unescape(s) ==
    LET digits == <<"0", "1", "2", "3", "4", "5", "6", "7", "8", "9",
                    "A", "B", "C", "D", "E", "F">>
        lower == <<"0", "1", "2", "3", "4", "5", "6", "7", "8", "9",
                   "a", "b", "c", "d", "e", "f">>
        unhex(c) == (CHOOSE n \in 1..16 : digits[n] = c \/ lower[n] = c) - 1
    IN IF s = <<>> THEN <<>>
       ELSE IF s[1] = "%"
         THEN <<Printable[16 * unhex(s[2]) + unhex(s[3]) - 32]>>
                \o Unescape(SubSeq(s, 4, Len(s)))
         ELSE <<s[1]>> \o Unescape(Tail(s))

\* url.Parse: the scheme is what stands before the first ":", in lower case;
\* a URI that starts with ":" has no scheme and is an error; after "//" the
\* authority is userinfo "@" host; a userinfo is a username, or a username
\* and a password with ":" between them, both unescaped; "%" without two hex
\* digits is an error.
Parse(uri) ==
    LET ToLower(s) ==
            [k \in 1..Len(s) |->
               CASE s[k] = "G" -> "g" [] s[k] = "R" -> "r" [] s[k] = "P" -> "p"
                 [] s[k] = "C" -> "c" [] s[k] = "S" -> "s" [] OTHER -> s[k]]
        ishex(c) == c \in {"0", "1", "2", "3", "4", "5", "6", "7", "8", "9",
                           "A", "B", "C", "D", "E", "F", "a", "b", "c", "d", "e", "f"}
        IndexByte(s, c) ==
            LET at == {k \in 1..Len(s) : s[k] = c}
            IN IF at = {} THEN 0 ELSE CHOOSE k \in at : \A j \in at : k <= j
        colon == IndexByte(uri, ":")
        rest == SubSeq(uri, colon + 1, Len(uri))
        authority == IF StartsWith(rest, <<"/", "/">>) THEN SubSeq(rest, 3, Len(rest)) ELSE <<>>
        ats == {k \in 1..Len(authority) : authority[k] = "@"}
        at == IF ats = {} THEN 0 ELSE CHOOSE k \in ats : \A j \in ats : j <= k
        userinfo == SubSeq(authority, 1, at - 1)
        sep == IndexByte(userinfo, ":")
        bad == \E k \in 1..Len(userinfo) :
                  /\ userinfo[k] = "%"
                  /\ ~(k + 2 <= Len(userinfo) /\ ishex(userinfo[k + 1]) /\ ishex(userinfo[k + 2]))
        nil == [set |-> FALSE, username |-> <<>>, password |-> <<>>, passwordSet |-> FALSE]
    IN IF colon = 1 THEN [err |-> "missing protocol scheme", Scheme |-> <<>>,
                          User |-> nil, Host |-> <<>>]
       ELSE IF colon = 0 THEN [err |-> "", Scheme |-> <<>>, User |-> nil, Host |-> <<>>]
       ELSE IF at > 0 /\ bad THEN [err |-> "invalid URL escape", Scheme |-> <<>>,
                                   User |-> nil, Host |-> <<>>]
       ELSE [err |-> "", Scheme |-> ToLower(SubSeq(uri, 1, colon - 1)),
             User |-> IF at = 0 THEN nil
                      ELSE IF sep = 0
                        THEN [set |-> TRUE, username |-> Unescape(userinfo),
                              password |-> <<>>, passwordSet |-> FALSE]
                        ELSE [set |-> TRUE,
                              username |-> Unescape(SubSeq(userinfo, 1, sep - 1)),
                              password |-> Unescape(SubSeq(userinfo, sep + 1, Len(userinfo))),
                              passwordSet |-> TRUE],
             Host |-> SubSeq(authority, at + 1, Len(authority))]

\* basicAuthFromUserinfo: userinfo.Username() and userinfo.Password().
basicAuthFromUserinfo(userinfo) ==
    [username |-> userinfo.username,
     password |-> IF userinfo.passwordSet THEN userinfo.password ELSE <<>>]

\* An encoding that leaves out the padding.
RawStdEncoding(src) ==
    LET alphabet ==
          <<
          "A", "B", "C", "D", "E", "F", "G", "H", "I", "J", "K", "L", "M",
          "N", "O", "P", "Q", "R", "S", "T", "U", "V", "W", "X", "Y", "Z",
          "a", "b", "c", "d", "e", "f", "g", "h", "i", "j", "k", "l", "m",
          "n", "o", "p", "q", "r", "s", "t", "u", "v", "w", "x", "y", "z",
          "0", "1", "2", "3", "4", "5", "6", "7", "8", "9", "+", "/" >>
        char(n) == alphabet[n + 1]
        quantum(k) ==
            LET b(i) == IF k + i <= Len(src) THEN src[k + i] ELSE 0
                val == b(0) * 65536 + b(1) * 256 + b(2)
                all == <<char(val \div 262144), char((val \div 4096) % 64),
                         char((val \div 64) % 64), char(val % 64)>>
            IN IF k + 2 <= Len(src) THEN all
               ELSE IF k + 1 <= Len(src) THEN SubSeq(all, 1, 3)
               ELSE SubSeq(all, 1, 2)
    IN Flatten([q \in 1..((Len(src) + 2) \div 3) |-> quantum(3 * q - 2)])

\* base64.StdEncoding.EncodeToString: three bytes give four characters of
\* the alphabet, a last group of one or two bytes is padded with "=".
StdEncoding(src) ==
    LET alphabet ==
          <<
          "A", "B", "C", "D", "E", "F", "G", "H", "I", "J", "K", "L", "M",
          "N", "O", "P", "Q", "R", "S", "T", "U", "V", "W", "X", "Y", "Z",
          "a", "b", "c", "d", "e", "f", "g", "h", "i", "j", "k", "l", "m",
          "n", "o", "p", "q", "r", "s", "t", "u", "v", "w", "x", "y", "z",
          "0", "1", "2", "3", "4", "5", "6", "7", "8", "9", "+", "/" >>
        char(n) == alphabet[n + 1]
        quantum(k) ==
            LET b(i) == IF k + i <= Len(src) THEN src[k + i] ELSE 0
                val == b(0) * 65536 + b(1) * 256 + b(2)
                all == <<char(val \div 262144), char((val \div 4096) % 64),
                         char((val \div 64) % 64), char(val % 64)>>
            IN IF k + 2 <= Len(src) THEN all
               ELSE IF k + 1 <= Len(src) THEN SubSeq(all, 1, 3) \o <<"=">>
               ELSE SubSeq(all, 1, 2) \o <<"=", "=">>
    IN Flatten([q \in 1..((Len(src) + 2) \div 3) |-> quantum(3 * q - 2)])

\* (c *basicAuthCredentials) RequireTransportSecurity()
RequireTransportSecurity(c) == FALSE

\* The URIs handed to Client: unencrypted endpoints, one also with the
\* scheme in capitals and one with credentials, an encrypted one, one of
\* another scheme, one without a scheme, one that url.Parse rejects, and
\* encrypted ones with a userinfo: user and password, user only, an escaped
\* "$" and an escaped ":", an empty password, an empty user, an empty
\* userinfo and a broken escape.
Uris ==
    { <<"g", "r", "p", "c", ":", "/", "/", "a">>,
      <<"G", "R", "P", "C", ":", "/", "/", "a">>,
      <<"g", "r", "p", "c", "s", ":", "/", "/", "a">>,
      <<"h", "t", "t", "p", ":", "/", "/", "a">>,
      <<"a">>,
      <<":", "/", "/", "a">>,
      <<"g", "r", "p", "c", ":", "/", "/", "u", "s", "e", "r", ":", "p", "a", "s", "s", "@", "h", "o", "s", "t", ":", "9", "0", "9", "2">>,
      <<"g", "r", "p", "c", "s", ":", "/", "/", "u", "s", "e", "r", "@", "h", "o", "s", "t", ":", "9", "0", "9", "2">>,
      <<"g", "r", "p", "c", "s", ":", "/", "/", "b", "a", "z", "e", "l", ":", "s", "e", "c", "r", "e", "t", "%", "2", "4", "k", "e", "y", "@", "h", "o", "s", "t", ":", "9", "0", "9", "2">>,
      <<"g", "r", "p", "c", "s", ":", "/", "/", "u", ":", "@", "a">>,
      <<"g", "r", "p", "c", "s", ":", "/", "/", ":", "p", "@", "a">>,
      <<"g", "r", "p", "c", "s", ":", "/", "/", "@", "a">>,
      <<"g", "r", "p", "c", "s", ":", "/", "/", "u", ":", "p", "%", "3", "A", "w", "@", "a">>,
      <<"g", "r", "p", "c", "s", ":", "/", "/", "u", "%", "z", "z", "@", "a">> }

\* The credentials Client adds to the connection: Basic auth when the URI
\* has a userinfo that is not empty.
Credentials(uri) ==
    LET parsed == Parse(uri) IN
    IF parsed.User.set /\ (parsed.User.username # <<>> \/ parsed.User.passwordSet)
      THEN basicAuthFromUserinfo(parsed.User)
      ELSE <<>>

\* Client(uri, helper): url.Parse and the switch on the scheme; with "grpc"
\* the goroutine goes into warnUnencryptedGRPC, with "grpcs" it goes on to
\* the credentials and returns the connection.
Client(p, uri) ==
    /\ client[p].pc = "idle"
    /\ client[p].calls < MaxCalls
    /\ LET parsed == Parse(uri)
           returns(err, creds) ==
               [client EXCEPT ![p] = [pc |-> "idle", uri |-> uri, err |-> err,
                                      calls |-> @.calls + 1, creds |-> creds,
                                      metadata |-> <<>>]]
       IN
       IF parsed.err # ""
         THEN client' = returns("invalid uri for grpc", <<>>)
         ELSE IF parsed.Scheme = <<"g", "r", "p", "c">>
           THEN client' = [client EXCEPT ![p] = [pc |-> "lock", uri |-> uri, err |-> "",
                                                 calls |-> @.calls, creds |-> <<>>,
                                                 metadata |-> <<>>]]
           ELSE IF parsed.Scheme = <<"g", "r", "p", "c", "s">>
             THEN client' = returns("", Credentials(uri))
             ELSE client' = returns("unsupported scheme for grpc", <<>>)
    /\ UNCHANGED <<fetch, WarnedURIs, warnMutex, stderr>>
    /\ UNCHANGED vars
    /\ UNCHANGED pullVars

\* A goroutine that goes on without the mutex.
LockNotTaken(p) ==
    /\ client[p].pc = "lock"
    /\ client' = [client EXCEPT ![p].pc = "check"]
    /\ UNCHANGED <<fetch, WarnedURIs, warnMutex, stderr>>
    /\ UNCHANGED vars
    /\ UNCHANGED pullVars

\* warnMutex.Lock()
Lock(p) ==
    /\ client[p].pc = "lock"
    /\ warnMutex = 0
    /\ warnMutex' = p
    /\ client' = [client EXCEPT ![p].pc = "check"]
    /\ UNCHANGED <<fetch, WarnedURIs, stderr>>
    /\ UNCHANGED vars
    /\ UNCHANGED pullVars

\* if _, warned := WarnedURIs[uri]; warned { return }
Check(p) ==
    /\ client[p].pc = "check"
    /\ client' = [client EXCEPT ![p].pc = IF client[p].uri \in WarnedURIs
                                            THEN "unlock" ELSE "warn"]
    /\ UNCHANGED <<fetch, WarnedURIs, warnMutex, stderr>>
    /\ UNCHANGED vars
    /\ UNCHANGED pullVars

\* WarnedURIs[uri] = struct{}{} and the warning on os.Stderr.
Warn(p) ==
    /\ client[p].pc = "warn"
    /\ WarnedURIs' = WarnedURIs \cup {client[p].uri}
    /\ stderr' = Append(stderr, client[p].uri)
    /\ client' = [client EXCEPT ![p].pc = "unlock"]
    /\ UNCHANGED <<fetch, warnMutex>>
    /\ UNCHANGED vars
    /\ UNCHANGED pullVars

\* The deferred warnMutex.Unlock(); Client goes on to grpc.NewClient and
\* returns the connection.
Unlock(p) ==
    /\ client[p].pc = "unlock"
    /\ warnMutex' = IF warnMutex = p THEN 0 ELSE warnMutex
    /\ client' = [client EXCEPT ![p].pc = "idle", ![p].err = "", ![p].calls = @ + 1,
                                 ![p].creds = Credentials(client[p].uri)]
    /\ UNCHANGED <<fetch, WarnedURIs, stderr>>
    /\ UNCHANGED vars
    /\ UNCHANGED pullVars

\* (c *basicAuthCredentials) GetRequestMetadata, called for an RPC of the
\* connection: the map with the authorization header, and a nil error.
GetRequestMetadata(p) ==
    /\ client[p].pc = "idle"
    /\ client[p].creds # <<>>
    /\ client[p].metadata = <<>>
    /\ LET c == client[p].creds
           auth == c.username \o <<":">> \o c.password
           encoded == StdEncoding(Bytes(auth))
       IN client' = [client EXCEPT ![p].metadata =
                        [map |-> {[key |-> "authorization",
                                   value |-> <<"B", "a", "s", "i", "c", " ">> \o encoded]},
                         err |-> "nil"]]
    /\ UNCHANGED <<fetch, WarnedURIs, warnMutex, stderr>>
    /\ UNCHANGED vars
    /\ UNCHANGED pullVars

ClientNext ==
    \E p \in Procs :
       \/ \E uri \in Uris : Client(p, uri)
       \/ Lock(p)
       \/ Check(p)
       \/ Warn(p)
       \/ Unlock(p)
       \/ GetRequestMetadata(p)

ClientSpec == Init /\ [][ClientNext]_<<vars, pullVars, toolVars>>

(***************************************************************************)
(* Properties of the blob store.                                           *)
(***************************************************************************)
\* The call of p has returned from method m.
Returned(p, m) == pc[p] = "done" /\ op[p] = m

\* The final path of the digest p was called with.
path(p) == blobPath(digest[p])

\* The content does not hash to the digest string.
WrongContent(c, dg) == DigestOf(Sha256(c)) # dg

\* Process p takes the first step of a call of method m.
Calls(p, m) == pc[p] = "idle" /\ op'[p] = m

\* C1: on an initialized store, WriteSmall(d) returns "sha256:" + sha256(d)
\* and the blob file exists when it has returned, so that a following
\* Exists(sha256(d)) is true; Exists returns whether a file is at the path,
\* the store starts without files, and a file comes to be at a final path only
\* by a write (os.WriteFile of the small writes, the rename of WriteLarge).
C1_WriteSmallThenExists ==
    /\ \A h \in Hex : dir[h] = NoFile
    /\ [](\A p \in Procs :
            /\ Returned(p, "WriteSmall") =>
                 /\ ret[p].err = "nil"
                 /\ ret[p].digest = DigestOf(Sha256(data[p]))
                 /\ dir[Sha256(data[p])] # NoFile
            /\ Returned(p, "Exists") => (ret[p].exists <=> dir[path(p)] # NoFile))
    /\ [][\A h \in Hex :
            (dir[h] = NoFile /\ dir'[h] # NoFile) =>
              \E p \in Procs : /\ pc[p] \in {"wf_open", "wl_rename"}
                               /\ pc'[p] # pc[p]
                               /\ path(p) = h]_vars

\* WriteSmall has written a non-empty buffer and returned.
C1_Witness ==
    \E p \in Procs :
        /\ Returned(p, "WriteSmall")
        /\ ~checks[p][1]
        /\ data[p] # <<>>
        /\ Stored(path(p)) = data[p]

\* C2: concurrent WriteLarge calls with the correct digest of their content
\* all return success, and when a call has returned the final path holds a
\* file whose content hashes to the digest and the call's temp file is gone.
C2_ConcurrentWriteLarge ==
    \A p \in Procs :
        Returned(p, "WriteLarge") =>
            /\ ret[p].err = "nil"
            /\ dir[path(p)] # NoFile
            /\ DigestOf(Sha256(Stored(path(p)))) = digest[p]
            /\ tempFile[p] = NoFile

\* Two calls with the same digest both passed the existence check before
\* either had renamed, and both have returned.
C2_Witness ==
    \E p \in Procs, q \in Procs :
        /\ p # q
        /\ Returned(p, "WriteLarge") /\ Returned(q, "WriteLarge")
        /\ digest[p] = digest[q]
        /\ data[p] # <<>>
        /\ ~checks[p][1] /\ ~checks[q][1]

\* C3 as stated: in every store state, WriteLarge with content that does not
\* hash to digest fails with a digest mismatch and no file is at the final
\* path afterwards.
C3_Original ==
    \A p \in Procs :
        (Returned(p, "WriteLarge") /\ WrongContent(data[p], digest[p])) =>
            /\ ret[p].err = "digest mismatch"
            /\ dir[path(p)] = NoFile

\* C3 amended: when no file exists under digest, WriteLarge with content that
\* does not hash to digest fails with a digest mismatch, and no file is at the
\* final path nor a temp file left afterwards; when a file exists under digest
\* the call returns success and the file is still there.
C3_WriteLargeWrongContent ==
    \A p \in Procs :
        (Returned(p, "WriteLarge") /\ WrongContent(data[p], digest[p])) =>
            IF checks[p][1]
              THEN ret[p].err = "nil" /\ dir[path(p)] # NoFile
              ELSE /\ ret[p].err = "digest mismatch"
                   /\ dir[path(p)] = NoFile
                   /\ tempFile[p] = NoFile

\* A "sha256:" digest with other content, on a store without that blob, was
\* refused.
C3_Witness ==
    \E p \in Procs :
        /\ Returned(p, "WriteLarge")
        /\ digest[p].prefix
        /\ WrongContent(data[p], digest[p])
        /\ off[p] > 0
        /\ ret[p].err = "digest mismatch"

\* C4: ReadSmall of a file whose content does not hash to the digest fails
\* with a digest mismatch and the file is gone when it returns (so the next
\* ReadSmall finds no file); ReadSmall of a digest without a file fails with
\* not-found and changes nothing on disk; otherwise it returns the content.
C4_ReadSmall ==
    /\ [](\A p \in Procs :
            Returned(p, "ReadSmall") =>
              IF ~checks[p][1]
                THEN ret[p].err = "not found"
                ELSE IF WrongContent(data[p], digest[p])
                       THEN ret[p].err = "digest mismatch" /\ dir[path(p)] = NoFile
                       ELSE /\ ret[p].err = "nil"
                            /\ ret[p].data = Stored(path(p)))
    /\ [][\A p \in Procs :
            (Calls(p, "ReadSmall") /\ dir[blobPath(digest'[p])] = NoFile) =>
              /\ pc'[p] = "done"
              /\ ret'[p].err = "not found"
              /\ UNCHANGED <<dir, tempFile, ino, file>>]_vars

\* A blob stored under a "sha256:" digest was altered, and ReadSmall has
\* reported the mismatch.
C4_Witness ==
    \E p \in Procs :
        /\ Returned(p, "ReadSmall")
        /\ digest[p].prefix
        /\ ret[p].err = "digest mismatch"
        /\ dir[path(p)] = NoFile

\* C5: whenever an operation has reported a digest mismatch, the file whose
\* content mismatched no longer exists: the blob file for ReadSmall and for a
\* Read of an Open stream, the temp file for WriteLarge; nothing was written
\* by WriteSmallWithDigest.
C5_MismatchRemovesFile ==
    \A p \in Procs :
        /\ (Returned(p, "ReadSmall") /\ ret[p].err = "digest mismatch") =>
              dir[path(p)] = NoFile
        /\ (Returned(p, "WriteLarge") /\ ret[p].err = "digest mismatch") =>
              tempFile[p] = NoFile
        /\ (Returned(p, "WriteSmallWithDigest") /\ ret[p].err = "digest mismatch") =>
              dir[path(p)] = NoFile
        /\ (pc[p] = "stream" /\ digest[p].prefix /\ rd[p].err = "digest mismatch") =>
              dir[path(p)] = NoFile

C7_WriteSmallWithDigest ==
    /\ [](\A p \in Procs :
            Returned(p, "WriteSmallWithDigest") =>
              IF checks[p][1]
                THEN ret[p].err = "nil"
                ELSE IF WrongContent(data[p], digest[p])
                       THEN ret[p].err = "digest mismatch" /\ dir[path(p)] = NoFile
                       ELSE /\ ret[p].err = "nil"
                            /\ dir[path(p)] # NoFile
                            /\ Stored(path(p)) = data[p])
    /\ [][\A p \in Procs :
            (Calls(p, "WriteSmallWithDigest") /\ dir[blobPath(digest'[p])] # NoFile) =>
              /\ pc'[p] = "done"
              /\ UNCHANGED <<dir, tempFile, ino, file>>]_vars

\* A file existed under the digest and the call was given data that does not
\* hash to it.
C7_Witness ==
    \E p \in Procs :
        /\ Returned(p, "WriteSmallWithDigest")
        /\ checks[p][1]
        /\ digest[p].prefix
        /\ WrongContent(data[p], digest[p])
        /\ ret[p].err = "nil"

\* C8: when a file exists under the digest, WriteLarge returns success in the
\* step of its existence check, having consumed the reader to its end, hashed
\* nothing and created no temp file, and WriteSmall returns the digest; neither
\* changes anything on disk, whatever the existing file holds.
C8_ExistingBlobUntouched ==
    /\ [](\A p \in Procs :
            /\ (Returned(p, "WriteLarge") /\ checks[p][1]) =>
                  /\ ret[p].err = "nil"
                  /\ off[p] = Len(data[p])
                  /\ hasher[p] = HashNew
                  /\ tempFile[p] = NoFile
            /\ (Returned(p, "WriteSmall") /\ checks[p][1]) =>
                  ret[p].err = "nil" /\ ret[p].digest = digest[p])
    /\ [][\A p \in Procs :
            ((Calls(p, "WriteLarge") \/ Calls(p, "WriteSmall"))
               /\ dir[blobPath(digest'[p])] # NoFile) =>
              /\ pc'[p] = "done"
              /\ UNCHANGED <<dir, tempFile, ino, file>>]_vars

\* WriteLarge found a file whose content hashes neither to the digest nor
\* like the reader's content, and returned success.
C8_Witness ==
    \E p \in Procs :
        /\ Returned(p, "WriteLarge")
        /\ checks[p][1]
        /\ data[p] # <<>>
        /\ WrongContent(Stored(path(p)), digest[p])
        /\ Stored(path(p)) # data[p]
        /\ ret[p].err = "nil"

\* C9: after a failed rename, WriteLarge returns success exactly when a file
\* is at the final path at the re-check and the rename error otherwise, and
\* its temp file is removed either way.
C9_RenameFailure ==
    /\ [](\A p \in Procs :
            (Returned(p, "WriteLarge") /\ Len(checks[p]) = 2) =>
                /\ ret[p].err = (IF checks[p][2] THEN "nil" ELSE "renaming blob")
                /\ tempFile[p] = NoFile)
    /\ [][\A p \in Procs :
            (pc[p] = "wl_recheck" /\ pc'[p] # pc[p]) =>
                /\ pc'[p] = "done"
                /\ ret'[p].err = "nil" <=> dir[path(p)] # NoFile
                /\ tempFile'[p] = NoFile]_vars

\* A rename failed and the re-check found the blob another writer had placed.
C9_Witness ==
    \E p \in Procs :
        /\ Returned(p, "WriteLarge")
        /\ Len(checks[p]) = 2
        /\ checks[p][2]
        /\ ret[p].err = "nil"

\* C10: no call that has returned has left its temp file; no step of
\* WriteLarge other than the rename changes what is at the final paths, and
\* a call that returns the stream error returns from the copy, before any
\* rename.
C10_TempFileRemoved ==
    /\ [](\A p \in Procs : pc[p] \in {"idle", "done"} => tempFile[p] = NoFile)
    /\ [][\A p \in Procs :
            /\ (pc[p] \in {"wl_create", "wl_copy", "wl_close", "wl_recheck"}
                  /\ (pc'[p] # pc[p] \/ off'[p] # off[p])) => dir' = dir
            /\ (op[p] = "WriteLarge" /\ pc[p] # "done" /\ pc'[p] = "done"
                  /\ ret'[p].err = "writing blob") => pc[p] = "wl_copy"]_vars

\* A stream failed after part of the content was in the temp file.
C10_Witness ==
    \E p \in Procs :
        /\ Returned(p, "WriteLarge")
        /\ ret[p].err = "writing blob"
        /\ off[p] > 0
        /\ tempFile[p] = NoFile

\* C11: where files come to the final paths through WriteLarge only, in every
\* reachable state each file at a final path is complete and hashes to its
\* name; so the bytes a concurrent ReadSmall has read, and the file a
\* concurrent Open stream reads from, hash to the name they were asked for,
\* and a file appears at a final path only in the rename step that follows
\* the successful hash comparison.
C11_NoPartialBlobVisible ==
    /\ [](/\ \A h \in Hex : dir[h] # NoFile => Sha256(Stored(h)) = h
          /\ \A p \in Procs :
               /\ (op[p] = "ReadSmall" /\ checks[p][1] /\ ret[p].err # "reading blob")
                     => Sha256(data[p]) = path(p)
               /\ (op[p] = "Open" /\ pc[p] = "stream")
                     => Sha256(ino[file[p]]) = path(p))
    /\ [][\A h \in Hex :
            (dir'[h] # NoFile /\ (dir[h] = NoFile \/ Stored(h)' # Stored(h))) =>
              \E p \in Procs : /\ pc[p] = "wl_rename" /\ pc'[p] = "done"
                               /\ path(p) = h
                               /\ hasher[p] = h
                               /\ Stored(h)' = data[p]]_vars

\* A WriteLarge has part of its content in its temp file while a concurrent
\* ReadSmall of the same name has found no file.
C11_Witness ==
    \E p \in Procs, q \in Procs :
        /\ pc[p] = "wl_copy"
        /\ 0 < off[p] /\ off[p] < Len(data[p])
        /\ ino[tempFile[p]] = SubSeq(data[p], 1, off[p])
        /\ Returned(q, "ReadSmall")
        /\ path(q) = path(p)
        /\ ret[q].err = "not found"

\* C12: WriteSmall is safe under concurrency: with concurrent WriteSmall,
\* Exists, ReadSmall and WriteLarge calls on the same digest, once every
\* WriteSmall(d) call in progress has returned success, a file with content d
\* is at the final path of sha256(d).
C12_WriteSmallConcurrent ==
    \A p \in Procs :
        (/\ Returned(p, "WriteSmall") /\ ret[p].err = "nil"
         /\ \A q \in Procs :
              (op[q] = "WriteSmall" /\ digest[q] = digest[p])
                 => (pc[q] = "done" /\ ret[q].err = "nil"))
        => (dir[path(p)] # NoFile /\ Stored(path(p)) = data[p])

(***************************************************************************)
(* Properties of the pull rule.                                            *)
(***************************************************************************)
\* The rule has computed its reference (it is past line 483).
Resolved ==
    \/ rpc \in {"tool", "root", "classify", "walk", "child", "config", "files",
                "layers", "wait", "build", "done"}
    \/ rpc = "failed" /\ failed \notin {"download failed", "Failed to learn digest from tag",
                                         "Failed to learn digest from tag: invalid digest output"}
    \/ rpc = "failed" /\ loc.reference # <<>>

\* The digest attribute is a string of 71 characters that starts "sha256:".
Supplied == Len(attr.digest) = 71 /\ StartsWith(attr.digest, Sha256Prefix)

\* The rule has asked for the digest of the tag.
Learning == \E k \in 1..Len(events) : events[k].what = "learn"

\* The downloads, subprocesses and cache lookups among the events.
Fetches == {k \in 1..Len(events) : events[k].kind # "print"}

\* C13: the digest attribute is taken for a valid digest exactly when it is 71
\* characters long and starts with "sha256:"; a string that is not is never
\* the reference of the rule: the reference is the tag, or the digest learned
\* through the tag, and the first thing fetched is fetched by the tag.
C13_DigestValidity ==
    rpc \notin {"idle", "validate"} =>
        /\ ~Learning => (loc.have_valid_digest <=> Supplied)
        /\ Supplied => (~Learning /\ loc.have_valid_digest /\ loc.digest = attr.digest)
        /\ (~Supplied /\ Resolved) =>
              /\ loc.reference = (IF Learning THEN loc.digest ELSE attr.tag)
              /\ \A k \in Fetches : (\A n \in Fetches : k <= n) => events[k].ref = attr.tag

\* "sha256:abc" and a 71-character string with another prefix were given as
\* digest and the manifest was asked for by the tag.
C13_Witness ==
    /\ attr.digest \in {ShortDigest, Sha512Digest(registry.root.id)}
    /\ attr.tag = Latest
    /\ loc.reference = Latest
    /\ \E k \in Fetches : events[k].what = "manifest" /\ events[k].ref = Latest

\* The failures of a download or of a subprocess.
TransportFailures ==
    {"download failed", "img tool failed", "Failed to download manifest",
     "Failed to download blob"}

\* C14: without a valid digest and without unsafe_allow_tag_without_digest the
\* pull fails for every tag: with "either digest or tag must be specified"
\* when the tag is empty, with the missing-valid-digest failure when a tag is
\* given (or the failure of the download itself), and it never writes a BUILD
\* file.
C14_TagWithoutDigestFails ==
    (rpc \notin {"idle", "validate"} /\ ~Supplied /\ ~attr.unsafe_allow_tag_without_digest) =>
        /\ rpc # "done"
        /\ repo.BUILD = {}
        /\ rpc = "failed" =>
             IF attr.tag = <<>>
               THEN failed = "either digest or tag must be specified"
               ELSE failed \in {"Missing valid image digest"} \cup TransportFailures

\* C15: without a valid digest, with unsafe_allow_tag_without_digest and a
\* tag, the first thing the rule does is one fetch of the manifest by the tag
\* to learn the digest, and no other; when it has succeeded the reference is
\* the learned digest, the next fetch is made by it, and no later fetch is
\* made by the tag.
C15_LearnOnce ==
    (rpc \notin {"idle", "validate", "learn"} /\ ~Supplied
        /\ attr.unsafe_allow_tag_without_digest /\ attr.tag # <<>>) =>
        /\ Len(events) > 0
        /\ events[1].what = "learn"
        /\ events[1].kind \in {"download", "execute"}
        /\ events[1].ref = attr.tag
        /\ \A k \in 2..Len(events) : events[k].what # "learn"
        /\ rpc # "failed" => loc.have_valid_digest
        /\ loc.have_valid_digest =>
             /\ attr.downloader = "bazel" =>
                    loc.digest = DigestString(Served(registry, attr.tag).id)
             /\ Resolved => loc.reference = loc.digest
             /\ \A k \in Fetches \ {1} :
                    /\ events[k].ref = attr.tag => attr.tag = loc.digest
                    /\ (\A n \in Fetches \ {1} : k <= n) => events[k].ref = loc.digest

\* The digest of the tag "latest" was learned and the image pulled by it.
C15_Witness ==
    /\ rpc = "done"
    /\ attr.tag = Latest
    /\ ~Supplied
    /\ events[1].what = "learn"
    /\ loc.digest = DigestString(registry.root.id)
    /\ \E k \in Fetches : events[k].what = "manifest" /\ events[k].ref = loc.digest

\* C16: a pull that has completed without a valid digest attribute, with the
\* digest learned from the tag, has printed exactly one warning that an
\* unpinned tag was used.
C16_UnpinnedTagWarning ==
    (rpc = "done" /\ ~Supplied /\ Learning) =>
        \E k \in 1..Len(events) :
            /\ events[k].kind = "print"
            /\ events[k].what = "unpinned tag"
            /\ \A n \in 1..Len(events) :
                 (events[n].kind = "print" /\ events[n].what = "unpinned tag") => n = k

\* The reference of the rule by the claim: the digest attribute when it is
\* valid, the learned digest when one was learned, else the tag.
Expected ==
    IF Supplied THEN attr.digest
    ELSE IF loc.have_valid_digest THEN loc.digest
    ELSE attr.tag

\* The events a step adds.
Added == {k \in 1..Len(events') : k > Len(events) /\ events'[k].kind # "print"}

\* C17: the pre-download by the tool and the fetch of the root manifest are
\* made by the digest when a valid digest is known (given or learned) and by
\* the tag as it is otherwise; every fetch of a child of an index is made by
\* the digest of its entry in the index.
C17_FetchReference ==
    [][/\ rpc \in {"tool", "root"} =>
            /\ Added # {}
            /\ \A k \in Added : events'[k].ref = Expected
       /\ rpc = "child" =>
            /\ Added # {}
            /\ \A k \in Added :
                 events'[k].ref = loc.root_blob_info.data.manifests[loc.i].digest]_<<vars, pullVars>>

\* With a learned digest, the tool has pulled the index by it and the second
\* child of the index was fetched by the digest of its entry.
C17_Witness ==
    /\ rpc = "config"
    /\ Learning
    /\ loc.is_index
    /\ loc.i = 2
    /\ \E k \in Fetches : events[k].what = "pull" /\ events[k].ref = loc.digest
    /\ events[Len(events)].what = "manifest"
    /\ events[Len(events)].ref = loc.manifests[2].digest

\* C18: when the rule has no valid digest, so that its reference is the tag,
\* the download of the root manifest does not look the reference up among the
\* blobs on disk, writes nothing under blobs/sha256/, and does not return the
\* reference as the digest of the manifest.
C18_TagNeverCacheKey ==
    [][(rpc = "root" /\ ~loc.have_valid_digest) =>
          /\ \A k \in Added : events'[k].kind # "exists"
          /\ repo'.blobs = repo.blobs
          /\ rpc' = "classify" => loc'.root_blob_info.digest # loc.reference]_<<vars, pullVars>>

\* The root manifest was downloaded and its media type looked at.
Classified == loc.root_blob_info # NoInfo /\ rpc # "classify"

\* The media types of an index and of a manifest, as the registries send them.
IndexTypes ==
    {"application/vnd.oci.image.index.v1+json",
     "application/vnd.docker.distribution.manifest.list.v2+json"}
ManifestTypes ==
    {"application/vnd.oci.image.manifest.v1+json",
     "application/vnd.docker.distribution.manifest.v2+json"}

\* C19: the root document is an index exactly for the OCI image index and the
\* Docker manifest list media types, a manifest exactly for the OCI image
\* manifest and the Docker v2 manifest media types; with any other media type
\* the rule fails with "invalid mediaType in manifest", having fetched nothing
\* but the root, and writes no BUILD file.
C19_Classification ==
    Classified =>
        LET mt == loc.root_blob_info.data.mediaType IN
        /\ mt \in IndexTypes =>
             /\ loc.is_index
             /\ loc.manifests = loc.root_blob_info.data.manifests
             /\ failed # "invalid mediaType in manifest"
        /\ mt \in ManifestTypes =>
             /\ ~loc.is_index
             /\ Len(loc.manifests) = 1
             /\ loc.manifests[1].digest = loc.digest
             /\ failed # "invalid mediaType in manifest"
        /\ mt \notin IndexTypes \cup ManifestTypes =>
             /\ rpc = "failed"
             /\ failed = "invalid mediaType in manifest"
             /\ repo.BUILD = {}
             /\ \A k \in Fetches :
                  events[k].what \in {"learn", "pull"} \/ events[k].ref = loc.reference

\* A root document of media type application/vnd.in-toto+json was refused.
C19_Witness ==
    /\ rpc = "failed"
    /\ failed = "invalid mediaType in manifest"
    /\ loc.root_blob_info.data.mediaType = "application/vnd.in-toto+json"
    /\ \E k \in Fetches : events[k].what = "manifest"

\* The references of the fetches for the root and for the entries of the index
\* before entry i: the reference of the rule, the digests of the entries and
\* the configs of their manifests.
FetchedBefore(i) ==
    {loc.reference, attr.tag}
      \cup {loc.manifests[n].digest : n \in 1..(i - 1)}
      \cup {Blob(registry, loc.manifests[n].digest[8]).config : n \in 1..(i - 1)}

\* C20: the loop over the entries of an index never goes past an entry whose
\* media type is an index type, and fetches no such entry: the rule fails there
\* with "Nested indexes are not supported"; in the failed rule every fetch was
\* for the root or for an entry before that one, none follows, and there is no
\* BUILD file.
C20_NestedIndex ==
    /\ [](/\ loc.is_index =>
               \A n \in 1..Len(loc.manifests) :
                   n < loc.i => loc.manifests[n].mediaType \notin IndexTypes
          /\ (loc.is_index /\ rpc \in {"child", "config"}) =>
               loc.manifests[loc.i].mediaType \notin IndexTypes
          /\ failed = "Nested indexes are not supported" =>
               /\ rpc = "failed"
               /\ loc.is_index
               /\ loc.manifests[loc.i].mediaType \in IndexTypes
               /\ repo.BUILD = {}
               /\ \A k \in Fetches :
                    events[k].what \in {"learn", "pull"} \/ events[k].ref \in FetchedBefore(loc.i))
    /\ [][rpc = "failed" => (events' = events /\ repo' = repo)]_<<vars, pullVars>>

\* The second entry of an index is an index: the first entry was fetched and
\* the rule has failed at the second.
C20_Witness ==
    /\ failed = "Nested indexes are not supported"
    /\ loc.i = 2
    /\ Len(loc.manifests) = 3
    /\ \E k \in Fetches : events[k].what = "manifest" /\ events[k].ref = loc.manifests[1].digest

\* The manifest of entry e of the index and its config were fetched, and the
\* bytes of both are in the data map under their digests.
ChildFetched(e) ==
    LET manifest == Blob(registry, e.digest[8]) IN
    /\ [key |-> e.digest, value |-> manifest] \in loc.data
    /\ \E k \in Fetches : events[k].ref = e.digest
    /\ manifest.config \in Keys(loc.data)
    /\ \E k \in Fetches : events[k].ref = manifest.config

\* C21 as stated: when the root is an index, for every entry the walk has
\* passed that is not an index, the manifest and its config were fetched and
\* are in the data map.
C21_Original ==
    loc.is_index =>
        \A n \in 1..Len(loc.manifests) :
            (n < loc.i /\ loc.manifests[n].mediaType \notin IndexTypes) =>
                ChildFetched(loc.manifests[n])

\* C21 amended: when the root is an index, for every entry the walk has passed
\* whose media type is an image manifest type (OCI or Docker v2), the manifest
\* and its config were fetched and are in the data map; an entry of any other
\* media type that is not an index is skipped: nothing is fetched for it and it
\* is not in the data map.
C21_ChildrenFetched ==
    loc.is_index =>
        \A n \in 1..Len(loc.manifests) :
            n < loc.i =>
                IF loc.manifests[n].mediaType \in ManifestTypes
                  THEN ChildFetched(loc.manifests[n])
                  ELSE /\ loc.manifests[n].mediaType \notin IndexTypes
                       /\ loc.manifests[n].digest \notin Keys(loc.data)
                       /\ \A k \in Fetches : events[k].ref # loc.manifests[n].digest

\* An index of two image manifests and an in-toto entry between them was
\* walked to its end.
C21_Witness ==
    /\ rpc = "files"
    /\ loc.is_index
    /\ Len(loc.manifests) = 3
    /\ loc.manifests[2].mediaType = "application/vnd.in-toto+json"
    /\ ChildFetched(loc.manifests[1])
    /\ ChildFetched(loc.manifests[3])

\* The rule is between two entries of its loop, or past the loop.
BetweenEntries == rpc \in {"walk", "files", "layers", "wait", "build", "done"}

\* The entries the loop has walked: those it has passed that are image
\* manifests.
WalkedEntries ==
    {n \in 1..Len(loc.manifests) :
        n < loc.i /\ loc.manifests[n].mediaType \in ManifestTypes}

\* The manifest of walked entry n: the child of the index, or the root.
WalkedManifest(n) ==
    IF loc.is_index THEN Blob(registry, loc.manifests[n].digest[8])
    ELSE loc.root_blob_info.data

\* Both fields are present and the pair is in the constraint table.
Recognized(os, arch) == os # "" /\ arch # "" /\ has_constraint_setting(os, arch)

\* The platform of walked entry n by the claim: that of the index entry when
\* it is recognized, else that of the config when it is recognized.
PlatformByEntryThenConfig(n) ==
    LET e == loc.manifests[n]
        c == Blob(registry, WalkedManifest(n).config[8])
    IN IF loc.is_index /\ Recognized(e.os, e.architecture)
         THEN {<<e.os, e.architecture>>}
         ELSE IF Recognized(c.os, c.architecture)
           THEN {<<c.os, c.architecture>>}
           ELSE {}

\* C22: the platform set holds, for each manifest walked, the platform of its
\* index entry when both fields are present and in the constraint table, and
\* otherwise (the entry gives none, or the root is a plain manifest) the
\* platform of its config under the same rule; it holds nothing else.
C22_PlatformFromEntryOrConfig ==
    BetweenEntries =>
        /\ loc.platforms_set = UNION {PlatformByEntryThenConfig(n) : n \in WalkedEntries}
        /\ \A pl \in loc.platforms_set : has_constraint_setting(pl[1], pl[2])

\* The elements of a sequence.
Range(seq) == {seq[k] : k \in 1..Len(seq)}

\* The platform the walk reads for walked entry n: that of the index entry for
\* a child of an index, that of the config for a root that is a manifest.
PlatformRead(n) ==
    LET e == loc.manifests[n]
        c == Blob(registry, WalkedManifest(n).config[8])
        os == IF loc.is_index THEN e.os ELSE c.os
        arch == IF loc.is_index THEN e.architecture ELSE c.architecture
    IN IF Recognized(os, arch) THEN {<<os, arch>>} ELSE {}

FileKeys == {f.key : f \in loc.files}

\* C24: after a successful pull the data map holds, under their digests, the
\* bytes of the root blob, of every child manifest fetched and of every config
\* fetched, one entry for each and no other, so none for a layer; the files
\* map has a label for every key of the data map; the BUILD file carries both
\* maps.
C24_DataAndFiles ==
    rpc = "done" =>
        /\ Keys(loc.data) =
              {loc.root_blob_info.digest}
                \cup {loc.manifests[n].digest : n \in {w \in WalkedEntries : loc.is_index}}
                \cup {WalkedManifest(n).config : n \in WalkedEntries}
        /\ \A e \in loc.data :
              /\ e.value # NoDoc
              /\ e.value = Blob(registry, e.key[8])
              /\ \A f \in loc.data : f.key = e.key => f = e
        /\ [key |-> loc.root_blob_info.digest, value |-> registry.root] \in loc.data
        /\ Keys(loc.data) \cap Range(loc.layer_digests) = {}
        /\ Keys(loc.data) \subseteq FileKeys
        /\ \A b \in repo.BUILD : b.data = loc.data /\ b.files = loc.files
        /\ repo.BUILD # {}

\* An index of two manifests was pulled with its layers: the data map has the
\* root, the two manifests and the two configs, the files map the layers too.
C24_Witness ==
    /\ rpc = "done"
    /\ loc.is_index
    /\ attr.layer_handling = "eager"
    /\ Cardinality(Keys(loc.data)) = 5
    /\ Cardinality(FileKeys) = 10

\* C25: with shallow layer handling the rule never enters download_layers and
\* issues no fetch, lookup or wait for a layer digest, and neither the files
\* map nor the BUILD file names a layer digest.
C25_ShallowNoLayers ==
    attr.layer_handling = "shallow" =>
        /\ rpc \notin {"layers", "wait"}
        /\ loc.downloaded_layers = <<>>
        /\ \A k \in Fetches : events[k].ref \notin AllLayers
        /\ FileKeys \cap AllLayers = {}
        /\ \A b \in repo.BUILD :
              /\ {f.key : f \in b.files} \cap AllLayers = {}
              /\ b.download_blobs.digests = <<>>

\* A shallow pull of an index with five layers has written its BUILD file.
C25_Witness ==
    /\ rpc = "done"
    /\ attr.layer_handling = "shallow"
    /\ Len(loc.layer_digests) = 5
    /\ FileKeys = Keys(loc.data)

\* The events of the given kinds for digest d.
EventsFor(d, kinds) == {k \in Fetches : events[k].ref = d /\ events[k].kind \in kinds}

\* C26: with eager layer handling no layer digest is looked up, fetched or
\* waited for twice, and after a successful pull every digest of the layer set
\* was looked up once and, unless the tool's pre-download had left it on disk,
\* fetched once; each has a blob in blobs/sha256/ with the layer's bytes and a
\* label in the files map and in the BUILD file.
C26_EagerLayers ==
    attr.layer_handling = "eager" =>
        /\ \A d \in AllLayers :
              /\ Cardinality(EventsFor(d, {"exists"})) <= 1
              /\ Cardinality(EventsFor(d, {"download", "execute"})) <= 1
              /\ Cardinality(EventsFor(d, {"wait"})) <= 1
        /\ rpc = "done" =>
              \A d \in Range(loc.layer_digests) :
                  /\ Cardinality(EventsFor(d, {"exists"})) = 1
                  /\ \/ Cardinality(EventsFor(d, {"download", "execute"})) = 1
                     \/ attr.downloader = "img_tool"
                  /\ BlobExists(repo, RemovePrefix(d, Sha256Prefix))
                  /\ ReadBlob(repo, RemovePrefix(d, Sha256Prefix)) = Blob(registry, d[8])
                  /\ d \in FileKeys
                  /\ \A b \in repo.BUILD : d \in {f.key : f \in b.files}

\* An eager pull with Bazel's downloader of an index whose two manifests share
\* a layer: five layers were fetched and waited for.
C26_Witness ==
    /\ rpc = "done"
    /\ attr.layer_handling = "eager"
    /\ attr.downloader = "bazel"
    /\ Len(loc.layer_digests) = 5
    /\ Cardinality({k \in Fetches : events[k].kind = "wait"}) = 5

\* C27: with lazy layer handling the rule never enters download_layers and
\* issues no fetch, lookup or wait for a layer digest; the BUILD file of a
\* successful pull has a download_blobs target that lists the digests of the
\* layer set, each once and in their order, spelled "sha256_<hex>", with the
\* registries of the pull as sources, and the files map has for every layer
\* digest the label of that name.
C27_LazyLayers ==
    attr.layer_handling = "lazy" =>
        /\ rpc \notin {"layers", "wait"}
        /\ loc.downloaded_layers = <<>>
        /\ \A k \in Fetches : events[k].ref \notin AllLayers
        /\ rpc = "done" =>
              \A b \in repo.BUILD :
                  /\ Len(b.download_blobs.digests) = Len(loc.layer_digests)
                  /\ \A k \in 1..Len(loc.layer_digests) :
                        /\ b.download_blobs.digests[k] =
                              Sha256Underscore \o SubSeq(loc.layer_digests[k], 8, 71)
                        /\ [key |-> loc.layer_digests[k],
                            value |-> [kind |-> "lazy",
                                       name |-> SubSeq(loc.layer_digests[k], 8, 71)]]
                              \in b.files
                  /\ b.download_blobs.sources = b.registries
                  /\ b.download_blobs.sources = attr.registry
                  /\ {f.key : f \in b.files} = Keys(loc.data) \cup Range(loc.layer_digests)

\* A lazy pull of an index with five layers has written its BUILD file with
\* the five deferred downloads.
C27_Witness ==
    /\ rpc = "done"
    /\ attr.layer_handling = "lazy"
    /\ Len(loc.layer_digests) = 5
    /\ \E b \in repo.BUILD : Len(b.download_blobs.digests) = 5

\* C28: a pull of the same image from the same registry that differs from an
\* first one in the layer handling only has, when its walk has ended, asked
\* for the same manifests and configs in the same order and has the same data
\* map, the same layer digests and the same platforms; when the tool's
\* pre-download left the manifests on disk in both pulls or in neither, its
\* downloads, subprocesses and lookups for manifests and configs are the same,
\* one by one.
C28_PolicyIndependent ==
    (earlier # NoSummary /\ rpc \in {"files", "layers", "wait", "build", "done"}) =>
        /\ attr.layer_handling # earlier.layer_handling
        /\ Summary.requests = earlier.requests
        /\ Summary.data = earlier.data
        /\ Summary.layer_digests = earlier.layer_digests
        /\ Summary.platforms_set = earlier.platforms_set
        /\ Summary.cached = earlier.cached => Summary.fetches = earlier.fetches

\* An index with five layers was pulled with eager and then with shallow
\* layer handling.
C28_Witness ==
    /\ rpc = "done"
    /\ earlier.layer_handling = "eager"
    /\ attr.layer_handling = "shallow"
    /\ Len(earlier.layer_digests) = 5
    /\ Len(earlier.requests) = 5
    /\ earlier.cached = Summary.cached

\* The step at hand is a fetch by digest: of the root manifest by a reference
\* that is a digest, of a child manifest, of a config, of a layer.
FetchByDigest ==
    \/ rpc = "root" /\ Len(loc.reference) = 71 /\ StartsWith(loc.reference, Sha256Prefix)
    \/ rpc \in {"child", "config"}
    \/ rpc = "layers" /\ loc.j <= Len(loc.layer_digests)

\* The digest that is fetched.
Fetched ==
    IF rpc = "root" THEN loc.reference
    ELSE IF rpc = "child" THEN loc.manifests[loc.i].digest
    ELSE IF rpc = "config" THEN loc.manifest_info.data.config
    ELSE loc.layer_digests[loc.j]

\* The downloads, subprocesses and lookups of the step, in order.
Issued ==
    SelectSeq(SubSeq(events', Len(events) + 1, Len(events')), LAMBDA e : e.kind # "print")

LayerStarts ==
    {k \in Fetches : events[k].ref \in Range(loc.layer_digests)
                       /\ events[k].kind \in {"download", "execute"}}
LayerWaits ==
    {k \in Fetches : events[k].ref \in Range(loc.layer_digests)
                       /\ events[k].kind \in {"wait", "execute"}}

\* C30: with either downloader, every fetch of the layers is started before
\* the rule waits for the end of any of them: no fetch is started after a
\* wait, and when the rule is in the loop of the waits every layer has been
\* looked up or started.
C30_SubmitThenWait ==
    attr.layer_handling = "eager" =>
        /\ \A w \in LayerWaits : \A k \in LayerStarts : k <= w
        /\ rpc = "wait" =>
              \A d \in Range(loc.layer_digests) :
                  EventsFor(d, {"exists"}) # {}

\* The layer digests that have a label of a downloaded blob in a files map.
LayerFiles(files) ==
    {f.key : f \in {g \in files : g.key \in AllLayers /\ g.value.kind = "blobs"}}

\* The layer is in blobs/sha256/ with the bytes the registry has for it.
LayerOnDisk(d) ==
    /\ BlobExists(repo, RemovePrefix(d, Sha256Prefix))
    /\ ReadBlob(repo, RemovePrefix(d, Sha256Prefix)) = Blob(registry, d[8])

\* C31: the batch of the layer fetches of an eager pull is all or nothing.
\* While the batch runs and after it failed the files map has no layer; once
\* the files map has a layer it has every digest of the layer set and every
\* one of them is on disk; a pull that went past the batch has them all; a
\* failure inside the batch ends the pull, without a BUILD file.
C31_LayerBatchAllOrNothing ==
    /\ rpc \in {"layers", "wait", "failed"} => LayerFiles(loc.files) = {}
    /\ LayerFiles(loc.files) # {} =>
          /\ attr.layer_handling = "eager"
          /\ rpc \in {"build", "done"}
          /\ LayerFiles(loc.files) = Range(loc.layer_digests)
          /\ Len(loc.downloaded_layers) = Len(loc.layer_digests)
          /\ \A d \in Range(loc.layer_digests) : LayerOnDisk(d)
    /\ (attr.layer_handling = "eager" /\ rpc \in {"build", "done"}) =>
          LayerFiles(loc.files) = Range(loc.layer_digests)
    /\ rpc = "failed" => repo.BUILD = {}
    /\ \A b \in repo.BUILD : LayerFiles(b.files) = LayerFiles(loc.files)

\* An eager pull with the helper tool failed at the third of its layers: two
\* layers are on disk and none is in the files map.
C31_Witness ==
    /\ rpc = "failed"
    /\ attr.layer_handling = "eager"
    /\ attr.downloader = "img_tool"
    /\ Len(loc.layer_digests) = 5
    /\ Len(loc.downloaded_layers) = 2
    /\ loc.j = 3
    /\ \A k \in 1..2 : LayerOnDisk(loc.layer_digests[k])
    /\ LayerFiles(loc.files) = {}
    /\ loc.files # {}

\* The registries of the sources in the order the caller gave them.
CallerOrder ==
    Flatten([i \in 1..Len(fetch.sources) |-> fetch.sources[i].registries])

\* C32: the registries are asked in the order of the caller's list, each
\* attempt under the repository of its source and for the same reference;
\* every attempt but the last has failed; a download that ended well ended
\* with the first registry that answers and asked no later one; a download
\* fails only when every registry of the list was asked and failed.
C32_RegistriesInOrder ==
    LET n == Len(fetch.tried) IN
    /\ n <= Len(CallerOrder)
    /\ \A k \in 1..n :
          /\ fetch.tried[k].registry = CallerOrder[k]
          /\ fetch.tried[k].reference = fetch.urls[1].reference
          /\ fetch.tried[k].what = fetch.urls[1].what
          /\ \E i \in 1..Len(fetch.sources) :
                /\ fetch.tried[k].repository = fetch.sources[i].repository
                /\ \E j \in 1..Len(fetch.sources[i].registries) :
                      fetch.sources[i].registries[j] = fetch.tried[k].registry
    /\ \A k \in 1..(n - 1) : fetch.tried[k].registry \notin fetch.up
    /\ fetch.phase = "download" => \A k \in 1..n : fetch.tried[k].registry \notin fetch.up
    /\ (fetch.phase = "done" /\ fetch.ok) =>
          /\ n >= 1
          /\ fetch.tried[n].registry \in fetch.up
    /\ (fetch.phase = "done" /\ ~fetch.ok) =>
          /\ n = Len(CallerOrder)
          /\ \A k \in 1..Len(CallerOrder) : CallerOrder[k] \notin fetch.up

\* The first registry of three had failed, the second one answered: the third
\* was not asked.
C32_Witness ==
    /\ fetch.phase = "done"
    /\ fetch.ok
    /\ Len(fetch.sources) = 1
    /\ Len(CallerOrder) = 3
    /\ Len(fetch.tried) = 2
    /\ CallerOrder[1] # CallerOrder[3]
    /\ CallerOrder[3] \in fetch.up

\* The bytes a fetch has returned or, when it did not read them, the bytes of
\* the file it names.
FetchedBytes ==
    LET info == loc.root_blob_info IN
    IF info.data # NoDoc THEN info.data
    ELSE IF BlobExists(repo, RemovePrefix(info.digest, Sha256Prefix))
      THEN ReadBlob(repo, RemovePrefix(info.digest, Sha256Prefix))
      ELSE NoDoc

\* C33: a fetch by digest that has returned gives bytes that hash to the
\* digest asked for, with either downloader, from the network and from
\* blobs/sha256/; bytes that hash to something else make the fetch fail.
C33_FetchedBytesHashToDigest ==
    (rpc = "fetched" /\ FetchedBytes # NoDoc) =>
        Sha256Prefix \o Sha256Hex(FetchedBytes) = loc.reference

\* The result of the pull as its locals give it.
Result ==
    [digest |-> loc.digest, data |-> loc.data, files |-> loc.files,
     target_compatible_with |-> loc.platforms_set]

\* C34: the BUILD file is there exactly when the pull has ended without a
\* failure, and then the reference was resolved to the image, the root, every
\* image manifest of the index and every config were fetched and are in the
\* data map, no entry was left unvisited, every layer that eager layer
\* handling asks for is on disk and in the files map, and the BUILD file has
\* the digest, the two maps and the platforms; a failure is the last step of
\* a pull and leaves no BUILD file.
C34_NoPartialResult ==
    /\ [](/\ repo.BUILD # {} <=> rpc = "done"
          /\ rpc = "failed" => (failed # "" /\ repo.BUILD = {})
          /\ rpc = "done" =>
                /\ failed = ""
                /\ loc.reference # <<>>
                /\ Served(registry, loc.reference) = registry.root
                /\ [key |-> loc.root_blob_info.digest, value |-> registry.root] \in loc.data
                /\ loc.i = Len(loc.manifests) + 1
                /\ \A n \in 1..Len(loc.manifests) : loc.manifests[n].mediaType \notin IndexTypes
                /\ \A n \in WalkedEntries :
                      /\ loc.is_index =>
                            [key |-> loc.manifests[n].digest, value |-> WalkedManifest(n)]
                                \in loc.data
                      /\ WalkedManifest(n) # NoDoc
                      /\ [key |-> WalkedManifest(n).config,
                          value |-> Blob(registry, WalkedManifest(n).config[8])] \in loc.data
                      /\ Range(WalkedManifest(n).layers) \subseteq Range(loc.layer_digests)
                /\ attr.layer_handling = "eager" =>
                      \A d \in Range(loc.layer_digests) : LayerOnDisk(d) /\ d \in FileKeys
                /\ \A b \in repo.BUILD :
                      [digest |-> b.digest, data |-> b.data, files |-> b.files,
                       target_compatible_with |-> b.target_compatible_with] = Result)
    /\ [][rpc # "failed"]_<<vars, pullVars>>

\* A pull of an index failed at its second manifest: the first manifest and
\* its config are in the data map and on disk, and there is no BUILD file.
C34_Witness ==
    /\ rpc = "failed"
    /\ loc.is_index
    /\ loc.i = 2
    /\ Cardinality(Keys(loc.data)) = 3
    /\ repo.blobs # {}
    /\ repo.BUILD = {}

\* The goroutine is at a statement that reads or writes WarnedURIs.
AtWarnedURIs(p) == client[p].pc \in {"check", "warn"}

\* The goroutine's last call of Client has returned.
ClientReturned(p) == client[p].pc = "idle" /\ client[p].calls > 0

\* C35: no URI has two warnings on os.Stderr, whatever the goroutines and
\* their calls; every warning is for a URI with scheme grpc; when a call of
\* Client with a URI of scheme grpc has returned, the URI has its warning and
\* the call gave no error; a call with scheme grpcs gives no error and one
\* with another scheme or with a URI url.Parse rejects gives an error, and
\* they leave no warning; WarnedURIs is read and written by the holder of
\* warnMutex only, and holds the URIs warned about.
C35_WarnOnce ==
    /\ \A i, j \in 1..Len(stderr) : stderr[i] = stderr[j] => i = j
    /\ \A i \in 1..Len(stderr) : Parse(stderr[i]).Scheme = <<"g", "r", "p", "c">>
    /\ WarnedURIs = Range(stderr)
    /\ \A p \in Procs :
          /\ AtWarnedURIs(p) => warnMutex = p
          /\ (ClientReturned(p) /\ client[p].err = "") =>
                /\ Parse(client[p].uri).Scheme \in {<<"g", "r", "p", "c">>,
                                                    <<"g", "r", "p", "c", "s">>}
                /\ Parse(client[p].uri).Scheme = <<"g", "r", "p", "c">> =>
                      client[p].uri \in Range(stderr)
          /\ (ClientReturned(p) /\ client[p].err # "") =>
                \/ Parse(client[p].uri).err # ""
                \/ Parse(client[p].uri).Scheme \notin {<<"g", "r", "p", "c">>,
                                                       <<"g", "r", "p", "c", "s">>}
          /\ client[p].pc # "idle" =>
                Parse(client[p].uri).Scheme = <<"g", "r", "p", "c">>

\* Both goroutines have called Client twice and last with the same URI of
\* scheme grpc: it has one warning, and another URI has one.
C35_Witness ==
    /\ \A p \in Procs : ClientReturned(p) /\ client[p].calls = 2 /\ client[p].err = ""
    /\ client[1].uri = client[2].uri
    /\ Parse(client[1].uri).Scheme = <<"g", "r", "p", "c">>
    /\ Len(stderr) = 2

\* The value of a character of the base64 alphabet, by its code.
Sextet(c) ==
    LET code == Bytes(<<c>>)[1] IN
    IF code >= 65 /\ code <= 90 THEN code - 65
    ELSE IF code >= 97 /\ code <= 122 THEN code - 71
    ELSE IF code >= 48 /\ code <= 57 THEN code + 4
    ELSE IF c = "+" THEN 62
    ELSE IF c = "/" THEN 63
    ELSE 0

\* The bytes a padded base64 string stands for.
Decoded(enc) ==
    LET pad == Cardinality({k \in 1..Len(enc) : enc[k] = "="})
        group(g) ==
            LET v == Sextet(enc[4 * g - 3]) * 262144 + Sextet(enc[4 * g - 2]) * 4096
                       + Sextet(enc[4 * g - 1]) * 64 + Sextet(enc[4 * g])
            IN <<v \div 65536, (v \div 256) % 256, v % 256>>
        all == Flatten([g \in 1..(Len(enc) \div 4) |-> group(g)])
    IN SubSeq(all, 1, Len(all) - pad)

\* The userinfo of a URI as it is written: between "//" and the last "@".
RawUserinfo(uri) ==
    LET start == 2 + CHOOSE k \in 1..Len(uri) :
                       /\ SubSeq(uri, k, k + 1) = <<"/", "/">>
                       /\ \A j \in 1..(k - 1) : SubSeq(uri, j, j + 1) # <<"/", "/">>
        ats == {k \in 1..Len(uri) : uri[k] = "@"}
    IN SubSeq(uri, start, (CHOOSE k \in ats : \A j \in ats : j <= k) - 1)

\* A string with its "$", ":" and "@" written as escapes.
Escaped(s) ==
    Flatten([k \in 1..Len(s) |->
               CASE s[k] = "$" -> <<"%", "2", "4">>
                 [] s[k] = ":" -> <<"%", "3", "A">>
                 [] s[k] = "@" -> <<"%", "4", "0">>
                 [] OTHER -> <<s[k]>>])

\* C36: the credentials of a connection are the unescaped username and
\* password of the userinfo of its URI, the password empty when the userinfo
\* has none; they do not require transport security; GetRequestMetadata
\* gives no error and a map with the one key "authorization", whose value is
\* "Basic " and the padded base64 string of username ":" password, for an
\* empty password too: "user" and "pass" give "Basic dXNlcjpwYXNz", "user"
\* alone gives "Basic dXNlcjo=".
C36_BasicAuth ==
    \A p \in Procs :
       client[p].creds # <<>> =>
          LET c == client[p].creds
              raw == RawUserinfo(client[p].uri)
              auth == c.username \o <<":">> \o c.password
          IN
          /\ RequireTransportSecurity(c) = FALSE
          /\ IF \A k \in 1..Len(raw) : raw[k] # ":"
               THEN Escaped(c.username) = raw /\ c.password = <<>>
               ELSE Escaped(c.username) \o <<":">> \o Escaped(c.password) = raw
          /\ client[p].metadata # <<>> =>
                /\ client[p].metadata.err = "nil"
                /\ Cardinality(client[p].metadata.map) = 1
                /\ \A h \in client[p].metadata.map :
                      LET enc == SubSeq(h.value, 7, Len(h.value)) IN
                      /\ h.key = "authorization"
                      /\ SubSeq(h.value, 1, 6) = <<"B", "a", "s", "i", "c", " ">>
                      /\ Len(enc) = 4 * ((Len(auth) + 2) \div 3)
                      /\ \A k \in 1..Len(enc) :
                            enc[k] = "=" <=> k > Len(enc) - ((3 - (Len(auth) % 3)) % 3)
                      /\ Decoded(enc) = Bytes(auth)
                      /\ (c.username = <<"u", "s", "e", "r">>
                            /\ c.password = <<"p", "a", "s", "s">>) =>
                            enc = <<"d", "X", "N", "l", "c", "j", "p", "w", "Y", "X", "N", "z">>
                      /\ (c.username = <<"u", "s", "e", "r">> /\ c.password = <<>>) =>
                            enc = <<"d", "X", "N", "l", "c", "j", "o", "=">>
                      /\ (c.username = <<"b", "a", "z", "e", "l">> /\ Len(c.password) = 10) =>
                            enc = <<"Y", "m", "F", "6", "Z", "W", "w", "6", "c", "2", "V", "j",
                                    "c", "m", "V", "0", "J", "G", "t", "l", "e", "Q", "=", "=">>

\* One goroutine has the metadata of the credentials of a userinfo with an
\* escaped "$" in the password, the other one those of a userinfo without a
\* password.
C36_Witness ==
    /\ \A p \in Procs : client[p].creds # <<>> /\ client[p].metadata # <<>>
    /\ client[1].creds.password =
          <<"s", "e", "c", "r", "e", "t", "$", "k", "e", "y">>
    /\ client[2].creds = [username |-> <<"u", "s", "e", "r">>, password |-> <<>>]
    /\ \A k \in 1..Len(RawUserinfo(client[2].uri)) : RawUserinfo(client[2].uri)[k] # ":"

\* C37: a ReadSmall of a stored file whose content hashes to the name it is
\* stored under returns the content and leaves the file in place, whether the
\* digest is passed with the "sha256:" prefix or as bare hex (both name the
\* same path).
C37_ReadSmallKeepsValidFile ==
    \A p \in Procs :
        (/\ Returned(p, "ReadSmall")
         /\ checks[p][1]
         /\ ret[p].err # "reading blob"
         /\ Sha256(data[p]) = path(p)) =>
            /\ ret[p].err = "nil"
            /\ ret[p].data = data[p]
            /\ dir[path(p)] # NoFile

\* The same, for the digests passed with the "sha256:" prefix only.
ReadSmallKeepsValidPrefixed ==
    \A p \in Procs :
        (/\ Returned(p, "ReadSmall")
         /\ checks[p][1]
         /\ digest[p].prefix
         /\ ret[p].err # "reading blob"
         /\ Sha256(data[p]) = path(p)) =>
            /\ ret[p].err = "nil"
            /\ ret[p].data = data[p]
            /\ dir[path(p)] # NoFile

\* Process p takes a step of a WriteLarge call: the call itself, a chunk of
\* the copy, or a system call that moves it on.
WriteLargeStep(p) ==
    /\ op'[p] = "WriteLarge"
    /\ (pc'[p] # pc[p] \/ off'[p] # off[p])

\* The step is the rename of WriteLarge succeeding; the call returns nil.
RenameSucceeds(p) ==
    /\ pc[p] = "wl_rename"
    /\ pc'[p] = "done"
    /\ ret'[p].err = "nil"

\* C38: a WriteLarge call that returns an error never removes, truncates or
\* replaces a file at a final path.  The only step of WriteLarge that changes
\* what a final path holds is the rename that succeeds, after which the call
\* returns nil; every other step of the call, under every interleaving with
\* other callers, leaves each file at a final path in place with its content,
\* and a call that has returned an error has made no rename.
C38_FailedWriteLargeKeepsFinalPath ==
    /\ [][\A p \in Procs :
            (WriteLargeStep(p) /\ ~RenameSucceeds(p)) =>
              \A h \in Hex :
                  dir[h] # NoFile => dir'[h] = dir[h] /\ ino'[dir[h]] = ino[dir[h]]]_vars
    /\ [][\A p \in Procs :
            (WriteLargeStep(p) /\ pc'[p] = "done" /\ ret'[p].err # "nil") =>
              /\ pc[p] \in {"wl_create", "wl_copy", "wl_close", "wl_recheck"}
              /\ tempFile'[p] = NoFile]_vars

\* A WriteLarge whose content does not hash to its digest has failed, and the
\* valid blob that another writer stored under that digest during the call is
\* at the final path.
C38_Witness ==
    \E p \in Procs :
        /\ Returned(p, "WriteLarge")
        /\ ret[p].err = "digest mismatch"
        /\ digest[p].prefix
        /\ ~checks[p][1]
        /\ dir[path(p)] # NoFile
        /\ Sha256(Stored(path(p))) = path(p)

\* C39: whenever the pull treats a digest as valid (have_valid_digest is
\* true), the digest is exactly 71 characters long and starts with "sha256:",
\* also when it was learned from a tag, by the helper tool's output or by the
\* hash of the manifest that Bazel downloaded.
C39_ValidDigestIsWellFormed ==
    loc.have_valid_digest =>
        Len(loc.digest) = 71 /\ StartsWith(loc.digest, Sha256Prefix)

\* The same for the digests that were supplied or learned with Bazel's
\* downloader.
ValidDigestIsWellFormedBazel ==
    (loc.have_valid_digest /\ attr.downloader = "bazel") =>
        Len(loc.digest) = 71 /\ StartsWith(loc.digest, Sha256Prefix)

\* A digest was learned from the tag with Bazel's downloader.
LearnedWithBazel ==
    /\ loc.have_valid_digest
    /\ attr.downloader = "bazel"
    /\ ~HaveValidDigest(attr.digest)
    /\ Len(loc.digest) = 71

\* The pull has failed for lack of a usable reference: without a valid digest
\* and without unsafe_allow_tag_without_digest it has failed with one of the
\* two failures about the reference, or neither a digest nor a tag was given.
FailedForLackOfReference ==
    /\ rpc = "failed"
    /\ \/ /\ ~HaveValidDigest(attr.digest)
          /\ ~attr.unsafe_allow_tag_without_digest
          /\ failed \in {"either digest or tag must be specified",
                         "Missing valid image digest"}
       \/ attr.digest = <<>> /\ attr.tag = <<>>

\* The downloads and the subprocesses that were started.
Started == {k \in 1..Len(events) : events[k].kind \in {"download", "execute"}}

====
